---- MODULE Spec2Model ----
(***************************************************************************)
(* Model of the symbolic algebra engine of fossil-math                     *)
(* (code/logic/symbolic.c): expression nodes on a heap, the recursive      *)
(* descent parser, constant folding, rule based differentiation,           *)
(* evaluation, rendering and release, driven by a client session.          *)
(*                                                                         *)
(* Texts are sequences of one-character strings; a position is an index    *)
(* into the text (the terminating NUL sits at Len(text)+1) and the null    *)
(* position is 0.  A pointer to a node is its index in the heap sequence   *)
(* and the null pointer is 0.  A double is modelled by an exact fraction   *)
(* <<n, d>> (d > 0), with <<0, 0>> for not-a-number and <<1, 0>>,          *)
(* <<-1, 0>> for the infinities; the model is exact wherever the double    *)
(* arithmetic is exact (small integers and dyadic fractions); signed       *)
(* zeros are not distinguished.                                            *)
(***************************************************************************)
EXTENDS Integers, Sequences, FiniteSets, TLC

\* ------------------------------------------------------------------------
\* Bounds of the model
\* ------------------------------------------------------------------------

\* longest text enumerated character by character over Alphabet
MaxLen == 3

\* most operator nodes in an enumerated tree
MaxOps == 2

\* ------------------------------------------------------------------------
\* Characters and texts
\* ------------------------------------------------------------------------

NULL == 0

NUL == "NUL"

At(text, s) == IF s >= 1 /\ s <= Len(text) THEN text[s] ELSE NUL

isspace(c) == c \in {" ", "\t", "\n"}

isdigit(c) == c \in {"0", "1", "2", "3", "4", "5", "6", "7", "8", "9"}

isalpha(c) == c \in {"a", "b", "c", "d", "e", "f", "g", "h", "i", "j", "k",
                     "l", "m", "n", "o", "p", "q", "r", "s", "t", "u", "v",
                     "w", "x", "y", "z", "E", "I", "P", "X"}

isalnum(c) == isalpha(c) \/ isdigit(c)

DigitVal(c) ==
    CASE c = "0" -> 0 [] c = "1" -> 1 [] c = "2" -> 2 [] c = "3" -> 3
      [] c = "4" -> 4 [] c = "5" -> 5 [] c = "6" -> 6 [] c = "7" -> 7
      [] c = "8" -> 8 [] c = "9" -> 9

DigitChar(n) ==
    CASE n = 0 -> "0" [] n = 1 -> "1" [] n = 2 -> "2" [] n = 3 -> "3"
      [] n = 4 -> "4" [] n = 5 -> "5" [] n = 6 -> "6" [] n = 7 -> "7"
      [] n = 8 -> "8" [] n = 9 -> "9"

\* ------------------------------------------------------------------------
\* Doubles as exact fractions
\* ------------------------------------------------------------------------

Abs(n) == IF n < 0 THEN -n ELSE n

Sign(n) == IF n < 0 THEN -1 ELSE IF n > 0 THEN 1 ELSE 0

RECURSIVE GCD(_, _)
GCD(a, b) == IF b = 0 THEN a ELSE GCD(b, a % b)

Norm(n, d) ==
    IF d = 0 THEN <<Sign(n), 0>>
    ELSE LET g == GCD(Abs(n), Abs(d))
             s == IF d < 0 THEN -1 ELSE 1
         IN <<(s * n) \div g, (s * d) \div g>>

NAN == <<0, 0>>

Num(n) == <<n, 1>>

isnan(a) == a = NAN

IsInf(a) == a[2] = 0 /\ a[1] # 0

\* a + b
DAdd(a, b) ==
    IF IsInf(a) /\ IsInf(b) THEN (IF a = b THEN a ELSE NAN)
    ELSE Norm(a[1] * b[2] + b[1] * a[2], a[2] * b[2])

\* a - b
DSub(a, b) == DAdd(a, <<-b[1], b[2]>>)

\* a * b
DMul(a, b) == Norm(a[1] * b[1], a[2] * b[2])

\* a / b
DDiv(a, b) == Norm(a[1] * b[2], a[2] * b[1])

RECURSIVE IntPow(_, _)
IntPow(a, k) == IF k = 0 THEN Num(1) ELSE DMul(a, IntPow(a, k - 1))

\* pow(a, b) of <math.h>: pow(x, 0) and pow(1, y) are 1 even for a NaN
\* operand; an integral exponent is computed exactly.  A non-integral or
\* infinite exponent has no exact fraction and lies outside the inputs the
\* model enumerates.
pow(a, b) ==
    IF b = Num(0) \/ a = Num(1) THEN Num(1)
    ELSE IF isnan(a) \/ isnan(b) THEN NAN
    ELSE IF b[2] = 1 /\ b[1] > 0 THEN IntPow(a, b[1])
    ELSE IF b[2] = 1 /\ b[1] < 0 THEN DDiv(Num(1), IntPow(a, -b[1]))
    ELSE NAN

\* ------------------------------------------------------------------------
\* Expression nodes and the heap
\* ------------------------------------------------------------------------

fossil_math_sym_CONST == "CONST"

fossil_math_sym_VAR == "VAR"

fossil_math_sym_OP == "OP"

\* sizeof(e->name)
NameSize == 32

Take(seq, n) == IF Len(seq) <= n THEN seq ELSE SubSeq(seq, 1, n)

\* calloc(1, sizeof(*e)): every field zero
ZeroNode ==
    [type |-> fossil_math_sym_CONST, op |-> NUL, value |-> Num(0),
     name |-> <<>>, left |-> NULL, right |-> NULL]

\* The constructors return the heap with the new node appended; the new
\* node's address is the length of the returned heap.
fossil_math_sym_new_const(h, value) ==
    Append(h, [ZeroNode EXCEPT !.type = fossil_math_sym_CONST, !.value = value])

fossil_math_sym_new_var(h, name) ==
    Append(h, [ZeroNode EXCEPT !.type = fossil_math_sym_VAR,
                               !.name = Take(name, NameSize - 1)])

fossil_math_sym_new_op(h, op, left, right) ==
    Append(h, [ZeroNode EXCEPT !.type = fossil_math_sym_OP, !.op = op,
                               !.left = left, !.right = right])

\* ------------------------------------------------------------------------
\* Parser (recursive descent)
\*   expr   = term { ('+'|'-') term }
\*   term   = factor { ('*'|'/') factor }
\*   factor = number | variable | '(' expr ')'
\* Every parse function takes the heap h, the text, the position s and the
\* current content of *out, and returns [h, s, out]: the heap after its
\* allocations, the position it returns (NULL on failure) and the content
\* of *out when it returns.
\* ------------------------------------------------------------------------

RECURSIVE SkipSpace(_, _)
SkipSpace(text, s) ==
    IF isspace(At(text, s)) THEN SkipSpace(text, s + 1) ELSE s

RECURSIVE ScanDigits(_, _)
ScanDigits(text, s) ==
    IF isdigit(At(text, s)) THEN ScanDigits(text, s + 1) ELSE s

\* value of the decimal digits text[s .. e-1] appended to acc
RECURSIVE DigitsVal(_, _, _, _)
DigitsVal(text, s, e, acc) ==
    IF s >= e THEN acc
    ELSE DigitsVal(text, s + 1, e, 10 * acc + DigitVal(text[s]))

RECURSIVE Pow10(_)
Pow10(k) == IF k = 0 THEN 1 ELSE 10 * Pow10(k - 1)

\* strtod(s, &end) on a text that starts with a digit or '.': decimal
\* digits, an optional fraction, an optional exponent that is consumed only
\* when it has a digit.  end = NULL stands for end == s (no conversion).
\* Hexadecimal literals ("0x...") are not modelled; no enumerated text has
\* one.
strtod(text, s) ==
    LET i1     == ScanDigits(text, s)
        hasDot == At(text, i1) = "."
        f1     == IF hasDot THEN ScanDigits(text, i1 + 1) ELSE i1
        nInt   == i1 - s
        nFrac  == IF hasDot THEN f1 - (i1 + 1) ELSE 0
        mant   == DigitsVal(text, i1 + 1, f1, DigitsVal(text, s, i1, 0))
        hasE   == At(text, f1) \in {"e", "E"}
        sgn    == At(text, f1 + 1) \in {"+", "-"}
        x0     == IF sgn THEN f1 + 2 ELSE f1 + 1
        x1     == ScanDigits(text, x0)
        useE   == hasE /\ x1 > x0
        ex     == IF useE THEN DigitsVal(text, x0, x1, 0) ELSE 0
        neg    == useE /\ At(text, f1 + 1) = "-"
    IN IF nInt + nFrac = 0 THEN [end |-> NULL, val |-> Num(0)]
       ELSE [end |-> IF useE THEN x1 ELSE f1,
             val |-> IF neg THEN Norm(mant, Pow10(nFrac) * Pow10(ex))
                            ELSE Norm(mant * Pow10(ex), Pow10(nFrac))]

fossil_math_sym_parse_number(text, s) == strtod(text, s)

\* The named constants of the core header, cut to three decimals so that
\* sums and products of them stay within the model's integers.
\* (value, denominator) in lowest terms; TWO_PI, HALF_PI, DEG2RAD and
\* RAD2DEG are derived from PI = 3.142 as the header derives them.
FOSSIL_MATH ==
    [PI      |-> <<1571, 500>>,
     TWO_PI  |-> <<1571, 250>>,
     HALF_PI |-> <<1571, 1000>>,
     E       |-> <<1359, 500>>,
     LOG2E   |-> <<1443, 1000>>,
     LOG10E  |-> <<217, 500>>,
     LN2     |-> <<693, 1000>>,
     LN10    |-> <<2303, 1000>>,
     SQRT2   |-> <<707, 500>>,
     SQRT1_2 |-> <<707, 1000>>,
     DEG2RAD |-> <<1571, 90000>>,
     RAD2DEG |-> <<90000, 1571>>]

\* the table of fossil_math_sym_is_const_name, in its order
ConstTable ==
    << [name |-> <<"p", "i">>,                          val |-> FOSSIL_MATH.PI],
       [name |-> <<"e">>,                               val |-> FOSSIL_MATH.E],
       [name |-> <<"l", "n", "2">>,                     val |-> FOSSIL_MATH.LN2],
       [name |-> <<"l", "n", "1", "0">>,                val |-> FOSSIL_MATH.LN10],
       [name |-> <<"s", "q", "r", "t", "2">>,           val |-> FOSSIL_MATH.SQRT2],
       [name |-> <<"s", "q", "r", "t", "1", "_", "2">>, val |-> FOSSIL_MATH.SQRT1_2],
       [name |-> <<"d", "e", "g", "2", "r", "a", "d">>, val |-> FOSSIL_MATH.DEG2RAD],
       [name |-> <<"r", "a", "d", "2", "d", "e", "g">>, val |-> FOSSIL_MATH.RAD2DEG],
       [name |-> <<"l", "o", "g", "2", "e">>,           val |-> FOSSIL_MATH.LOG2E],
       [name |-> <<"l", "o", "g", "1", "0", "e">>,      val |-> FOSSIL_MATH.LOG10E],
       [name |-> <<"t", "w", "o", "_", "p", "i">>,      val |-> FOSSIL_MATH.TWO_PI],
       [name |-> <<"h", "a", "l", "f", "_", "p", "i">>, val |-> FOSSIL_MATH.HALF_PI] >>

ConstNames == {ConstTable[i].name : i \in DOMAIN ConstTable}

\* strncmp(s, name, nlen) == 0
strncmp0(text, s, name) ==
    \A k \in 1..Len(name) : At(text, s + k - 1) = name[k]

\* The rows of the table that match at s: the name is there and is not
\* followed by an identifier character.
ConstMatches(text, s) ==
    {i \in DOMAIN ConstTable :
        /\ strncmp0(text, s, ConstTable[i].name)
        /\ ~isalnum(At(text, s + Len(ConstTable[i].name)))
        /\ At(text, s + Len(ConstTable[i].name)) # "_"}

Min(S) == CHOOSE x \in S : \A y \in S : x <= y

\* returns the first matching row of the table, 0 when there is none
fossil_math_sym_is_const_name(text, s) ==
    IF ConstMatches(text, s) = {} THEN 0 ELSE Min(ConstMatches(text, s))

\* the identifier characters copied to name[]: while isalnum and i < 31
RECURSIVE ScanIdent(_, _, _)
ScanIdent(text, s, i) ==
    IF isalnum(At(text, s)) /\ i < NameSize - 1
    THEN ScanIdent(text, s + 1, i + 1)
    ELSE s

Fail(h, out) == [h |-> h, s |-> NULL, out |-> out]

RECURSIVE fossil_math_sym_parse_factor(_, _, _, _)
RECURSIVE fossil_math_sym_parse_term(_, _, _, _)
RECURSIVE fossil_math_sym_parse_expr(_, _, _, _)
RECURSIVE TermLoop(_, _, _, _)
RECURSIVE TermRhs(_, _, _, _)
RECURSIVE ExprLoop(_, _, _, _)
RECURSIVE ExprRhs(_, _, _, _)

\* the '(' branch after the inner expr returned r: it must have succeeded
\* and stand at ')'.  *out is what the inner expr left in it.
CloseParen(text, r) ==
    IF r.s = NULL \/ At(text, r.s) # ")"
    THEN [r EXCEPT !.s = NULL]
    ELSE [r EXCEPT !.s = r.s + 1]

\* [h, s, out]: the heap after the call, the returned position (NULL on
\* failure) and *out, which a failure leaves as it was
fossil_math_sym_parse_factor(h, text, s0, out) ==
    LET s == SkipSpace(text, s0)
        c == At(text, s)
    IN
    IF isdigit(c) \/ c = "." THEN
        LET r  == fossil_math_sym_parse_number(text, s)
            h1 == fossil_math_sym_new_const(h, r.val)
        IN IF r.end = NULL THEN Fail(h, out)
           ELSE [h |-> h1, s |-> r.end, out |-> Len(h1)]
    ELSE IF fossil_math_sym_is_const_name(text, s) # 0 THEN
        LET row == ConstTable[fossil_math_sym_is_const_name(text, s)]
            h1  == fossil_math_sym_new_const(h, row.val)
        IN [h |-> h1, s |-> s + Len(row.name), out |-> Len(h1)]
    ELSE IF isalpha(c) THEN
        LET e  == ScanIdent(text, s, 0)
            h1 == fossil_math_sym_new_var(h, SubSeq(text, s, e - 1))
        IN [h |-> h1, s |-> e, out |-> Len(h1)]
    ELSE IF c = "(" THEN
        CloseParen(text, fossil_math_sym_parse_expr(h, text, s + 1, out))
    ELSE Fail(h, out)

\* TermRhs with the operands of the new node exchanged
TermRhs_swapped(text, op, out, r) ==
    IF r.s = NULL \/ r.out = NULL THEN Fail(r.h, out)
    ELSE TermLoop(fossil_math_sym_new_op(r.h, op, r.out, out), text, r.s,
                  Len(r.h) + 1)

\* the loop body of fossil_math_sym_parse_term after the right factor
\* returned r (r.out is rhs): fail, or make the operator node and loop
TermRhs(text, op, out, r) ==
    IF r.s = NULL \/ r.out = NULL THEN Fail(r.h, out)
    ELSE TermLoop(fossil_math_sym_new_op(r.h, op, out, r.out), text, r.s,
                  Len(r.h) + 1)

\* the while (1) loop of fossil_math_sym_parse_term
TermLoop(h, text, s0, out) ==
    LET s == SkipSpace(text, s0)
    IN IF At(text, s) \in {"*", "/"}
       THEN TermRhs(text, At(text, s), out,
                    fossil_math_sym_parse_factor(h, text, s + 1, NULL))
       ELSE [h |-> h, s |-> s, out |-> out]

\* fossil_math_sym_parse_term after its first factor returned r
TermTail(text, r) ==
    IF r.s = NULL THEN r ELSE TermLoop(r.h, text, r.s, r.out)

fossil_math_sym_parse_term(h, text, s0, out) ==
    TermTail(text, fossil_math_sym_parse_factor(h, text, s0, out))

\* the loop body of fossil_math_sym_parse_expr after the right term
\* returned r (r.out is rhs): fail, or make the operator node and loop
ExprRhs(text, op, out, r) ==
    IF r.s = NULL \/ r.out = NULL THEN Fail(r.h, out)
    ELSE ExprLoop(fossil_math_sym_new_op(r.h, op, out, r.out), text, r.s,
                  Len(r.h) + 1)

\* the while (1) loop of fossil_math_sym_parse_expr
ExprLoop(h, text, s0, out) ==
    LET s == SkipSpace(text, s0)
    IN IF At(text, s) \in {"+", "-"}
       THEN ExprRhs(text, At(text, s), out,
                    fossil_math_sym_parse_term(h, text, s + 1, NULL))
       ELSE [h |-> h, s |-> s, out |-> out]

\* fossil_math_sym_parse_expr after its first term returned r
ExprTail(text, r) ==
    IF r.s = NULL THEN r ELSE ExprLoop(r.h, text, r.s, r.out)

fossil_math_sym_parse_expr(h, text, s0, out) ==
    ExprTail(text, fossil_math_sym_parse_term(h, text, s0, out))

\* the return of fossil_math_sym_parse, r being what parse_expr returned:
\* root on both arms of the conditional, whatever end is
ParseReturn(text, r) ==
    [h |-> r.h,
     root |-> IF r.s # NULL /\ At(text, r.s) = NUL THEN r.out ELSE r.out,
     end |-> r.s]

\* fossil_math_sym_parse(expr): [h, root, end]; end is kept for the
\* properties
fossil_math_sym_parse(h, text) ==
    ParseReturn(text, fossil_math_sym_parse_expr(h, text, 1, NULL))

\* ------------------------------------------------------------------------
\* Trees as values: the variant view of the nodes reachable from a pointer
\* ------------------------------------------------------------------------

Const(v) == <<"Constant", v>>

Var(n) == <<"Variable", n>>

Op(o, l, r) == <<"BinaryOp", o, l, r>>

Absent == <<"null">>

None == <<"None">>

\* in place of a result: the process was stopped
Aborted == <<"Aborted">>

RECURSIVE TreeOf(_, _)
TreeOf(h, p) ==
    IF p = NULL THEN Absent
    ELSE IF h[p].type = fossil_math_sym_CONST THEN Const(h[p].value)
    ELSE IF h[p].type = fossil_math_sym_VAR THEN Var(h[p].name)
    ELSE Op(h[p].op, TreeOf(h, h[p].left), TreeOf(h, h[p].right))

\* the nodes reachable from p, p included
RECURSIVE Reach(_, _)
Reach(h, p) ==
    IF p = NULL THEN {}
    ELSE {p} \cup Reach(h, h[p].left) \cup Reach(h, h[p].right)

\* the number of paths from p to node q
RECURSIVE Paths(_, _, _)
Paths(h, p, q) ==
    IF p = NULL THEN 0
    ELSE (IF p = q THEN 1 ELSE 0)
         + Paths(h, h[p].left, q) + Paths(h, h[p].right, q)

\* ------------------------------------------------------------------------
\* Memory: the heap h, the released addresses, the addresses handed to
\* free() while already released, and whether the allocator has aborted
\* the process.  An address is never handed out twice.
\* ------------------------------------------------------------------------

Mem(h, freed, twice, crashed) ==
    [h |-> h, freed |-> freed, twice |-> twice, crashed |-> crashed]

\* fossil_math_sym_free(expr): free(left), free(right), free(expr).  On a
\* released node the walk reads the stale left and right fields and then
\* hands the node to free() a second time, which is undefined behaviour
\* with two outcomes: the allocator detects it and aborts the process
\* (detect), or nothing is noticed and the walk goes on.
RECURSIVE fossil_math_sym_free(_, _, _)
fossil_math_sym_free(m, expr, detect) ==
    IF expr = NULL \/ m.crashed THEN m
    ELSE LET m1 == fossil_math_sym_free(m, m.h[expr].left, detect)
             m2 == fossil_math_sym_free(m1, m.h[expr].right, detect)
         IN IF m2.crashed THEN m2
            ELSE IF expr \in m2.freed
            THEN [m2 EXCEPT !.twice = @ \cup {expr}, !.crashed = detect]
            ELSE [m2 EXCEPT !.freed = @ \cup {expr}]

\* ------------------------------------------------------------------------
\* Simplification (constant folding in place)
\* ------------------------------------------------------------------------

\* the switch (expr->op) of the folding step; result starts as 0.0
FoldValue(op, a, b) ==
    CASE op = "+" -> DAdd(a, b)
      [] op = "-" -> DSub(a, b)
      [] op = "*" -> DMul(a, b)
      [] op = "/" -> IF b # Num(0) THEN DDiv(a, b) ELSE NAN
      [] OTHER -> Num(0)

\* fossil_math_sym_simplify(expr) returns expr itself; the operator returns
\* the memory after the call.  detect is the outcome of a second free(), as
\* in fossil_math_sym_free.
RECURSIVE fossil_math_sym_simplify(_, _, _)

\* fossil_math_sym_simplify without the recursive call on the right child
fossil_math_sym_simplify_left_only(m, expr, detect) ==
    IF expr = NULL THEN m
    ELSE IF m.h[expr].type = fossil_math_sym_OP THEN
        LET m2 == fossil_math_sym_simplify(m, m.h[expr].left, detect)
            l  == m2.h[expr].left
            r  == m2.h[expr].right
        IN IF /\ l # NULL /\ m2.h[l].type = fossil_math_sym_CONST
              /\ r # NULL /\ m2.h[r].type = fossil_math_sym_CONST
           THEN LET result == FoldValue(m2.h[expr].op, m2.h[l].value, m2.h[r].value)
                    m3 == fossil_math_sym_free(m2, l, detect)
                    m4 == fossil_math_sym_free(m3, r, detect)
                IN [m4 EXCEPT !.h[expr].type = fossil_math_sym_CONST,
                              !.h[expr].value = result,
                              !.h[expr].left = NULL,
                              !.h[expr].right = NULL]
           ELSE m2
    ELSE m

fossil_math_sym_simplify(m, expr, detect) ==
    IF expr = NULL THEN m
    ELSE IF m.h[expr].type = fossil_math_sym_OP THEN
        LET m1 == fossil_math_sym_simplify(m, m.h[expr].left, detect)
            m2 == fossil_math_sym_simplify(m1, m.h[expr].right, detect)
            l  == m2.h[expr].left
            r  == m2.h[expr].right
        IN IF /\ l # NULL /\ m2.h[l].type = fossil_math_sym_CONST
              /\ r # NULL /\ m2.h[r].type = fossil_math_sym_CONST
           THEN LET result == FoldValue(m2.h[expr].op, m2.h[l].value, m2.h[r].value)
                    m3 == fossil_math_sym_free(m2, l, detect)
                    m4 == fossil_math_sym_free(m3, r, detect)
                IN [m4 EXCEPT !.h[expr].type = fossil_math_sym_CONST,
                              !.h[expr].value = result,
                              !.h[expr].left = NULL,
                              !.h[expr].right = NULL]
           ELSE m2
    ELSE m

\* ------------------------------------------------------------------------
\* Symbolic differentiation
\* fossil_math_sym_diff(expr, var) returns [m, ret]: the memory after the
\* call and the returned pointer.
\* ------------------------------------------------------------------------

Ret(m, p) == [m |-> m, ret |-> p]

NewConst(m, value) ==
    LET h1 == fossil_math_sym_new_const(m.h, value)
    IN Ret([m EXCEPT !.h = h1], Len(h1))

NewOp(m, op, left, right) ==
    LET h1 == fossil_math_sym_new_op(m.h, op, left, right)
    IN Ret([m EXCEPT !.h = h1], Len(h1))

RECURSIVE fossil_math_sym_diff(_, _, _, _)

\* fossil_math_sym_diff with the product u'*v' in place of u'*v + u*v'
fossil_math_sym_diff_termwise(m, expr, var, detect) ==
    IF expr = NULL THEN Ret(m, NULL)
    ELSE IF m.h[expr].type = fossil_math_sym_CONST THEN NewConst(m, Num(0))
    ELSE IF m.h[expr].type = fossil_math_sym_VAR THEN
        NewConst(m, IF m.h[expr].name = var THEN Num(1) ELSE Num(0))
    ELSE
        LET u  == m.h[expr].left
            v  == m.h[expr].right
            du == fossil_math_sym_diff(m, u, var, detect)
            dv == fossil_math_sym_diff(du.m, v, var, detect)
            op == m.h[expr].op
        IN
        IF op = "+" THEN NewOp(dv.m, "+", du.ret, dv.ret)
        ELSE IF op = "-" THEN NewOp(dv.m, "-", du.ret, dv.ret)
        ELSE IF op = "*" THEN NewOp(dv.m, "*", du.ret, dv.ret)
        ELSE IF op = "/" THEN
            LET num_left  == NewOp(dv.m, "*", du.ret, v)
                num_right == NewOp(num_left.m, "*", u, dv.ret)
                num       == NewOp(num_right.m, "-", num_left.ret, num_right.ret)
                denom     == NewOp(num.m, "*", v, v)
            IN NewOp(denom.m, "/", num.ret, denom.ret)
        ELSE
            LET m1 == fossil_math_sym_free(dv.m, du.ret, detect)
                m2 == fossil_math_sym_free(m1, dv.ret, detect)
            IN Ret(m2, NULL)

fossil_math_sym_diff(m, expr, var, detect) ==
    IF expr = NULL THEN Ret(m, NULL)
    ELSE IF m.h[expr].type = fossil_math_sym_CONST THEN NewConst(m, Num(0))
    ELSE IF m.h[expr].type = fossil_math_sym_VAR THEN
        NewConst(m, IF m.h[expr].name = var THEN Num(1) ELSE Num(0))
    ELSE
        LET u  == m.h[expr].left
            v  == m.h[expr].right
            du == fossil_math_sym_diff(m, u, var, detect)
            dv == fossil_math_sym_diff(du.m, v, var, detect)
            op == m.h[expr].op
        IN
        IF op = "+" THEN NewOp(dv.m, "+", du.ret, dv.ret)
        ELSE IF op = "-" THEN NewOp(dv.m, "-", du.ret, dv.ret)
        ELSE IF op = "*" THEN
            LET left  == NewOp(dv.m, "*", du.ret, v)
                right == NewOp(left.m, "*", u, dv.ret)
            IN NewOp(right.m, "+", left.ret, right.ret)
        ELSE IF op = "/" THEN
            LET num_left  == NewOp(dv.m, "*", du.ret, v)
                num_right == NewOp(num_left.m, "*", u, dv.ret)
                num       == NewOp(num_right.m, "-", num_left.ret, num_right.ret)
                denom     == NewOp(num.m, "*", v, v)
            IN NewOp(denom.m, "/", num.ret, denom.ret)
        ELSE
            LET m1 == fossil_math_sym_free(dv.m, du.ret, detect)
                m2 == fossil_math_sym_free(m1, dv.ret, detect)
            IN Ret(m2, NULL)

\* ------------------------------------------------------------------------
\* Evaluation.  A lookup maps some names to values and every other name to
\* 0; NoLookup is the null callback.
\* ------------------------------------------------------------------------

NoLookup == [present |-> FALSE, map |-> [n \in {} |-> Num(0)]]

var_lookup(L, name) == IF name \in DOMAIN L.map THEN L.map[name] ELSE Num(0)

\* fossil_math_sym_eval_internal dereferences expr and both children of an
\* operator node; it is defined on trees without a missing child.
RECURSIVE fossil_math_sym_eval_internal(_, _, _)

\* fossil_math_sym_eval_internal dividing without the test of the divisor
fossil_math_sym_eval_internal_unchecked(h, expr, L) ==
    IF h[expr].type = fossil_math_sym_CONST THEN h[expr].value
    ELSE IF h[expr].type = fossil_math_sym_VAR THEN
        (IF L # NoLookup THEN var_lookup(L, h[expr].name) ELSE NAN)
    ELSE
        LET a == fossil_math_sym_eval_internal(h, h[expr].left, L)
            b == fossil_math_sym_eval_internal(h, h[expr].right, L)
            op == h[expr].op
        IN CASE op = "+" -> DAdd(a, b)
             [] op = "-" -> DSub(a, b)
             [] op = "*" -> DMul(a, b)
             [] op = "/" -> DDiv(a, b)
             [] op = "^" -> pow(a, b)
             [] OTHER -> NAN

fossil_math_sym_eval_internal(h, expr, L) ==
    IF h[expr].type = fossil_math_sym_CONST THEN h[expr].value
    ELSE IF h[expr].type = fossil_math_sym_VAR THEN
        (IF L # NoLookup THEN var_lookup(L, h[expr].name) ELSE NAN)
    ELSE
        LET a == fossil_math_sym_eval_internal(h, h[expr].left, L)
            b == fossil_math_sym_eval_internal(h, h[expr].right, L)
            op == h[expr].op
        IN CASE op = "+" -> DAdd(a, b)
             [] op = "-" -> DSub(a, b)
             [] op = "*" -> DMul(a, b)
             [] op = "/" -> IF b # Num(0) THEN DDiv(a, b) ELSE NAN
             [] op = "^" -> pow(a, b)
             [] OTHER -> NAN

fossil_math_sym_eval(h, expr, L) ==
    IF expr = NULL THEN NAN ELSE fossil_math_sym_eval_internal(h, expr, L)

\* ------------------------------------------------------------------------
\* Rendering
\* ------------------------------------------------------------------------

\* the decimal digits of the natural number n
RECURSIVE NatDigits(_)
NatDigits(n) ==
    IF n < 10 THEN <<DigitChar(n)>>
    ELSE Append(NatDigits(n \div 10), DigitChar(n % 10))

\* up to k digits of the fraction r / d (r < d) by long division
RECURSIVE FracDigits(_, _, _)
FracDigits(r, d, k) ==
    IF r = 0 \/ k = 0 THEN <<>>
    ELSE <<DigitChar((10 * r) \div d)>> \o FracDigits((10 * r) % d, d, k - 1)

\* printf("%.17g", v): seventeen significant digits, trailing zeros and a
\* trailing point removed.  Exact when the decimal expansion ends within
\* seventeen digits; a longer expansion is cut, not rounded.  The exponent
\* form (below 1e-4, from 1e17) is not reached by the model's values.
Format17g(v) ==
    IF isnan(v) THEN <<"n", "a", "n">>
    ELSE IF IsInf(v) THEN (IF v[1] < 0 THEN <<"-">> ELSE <<>>) \o <<"i", "n", "f">>
    ELSE LET n    == Abs(v[1])
             ip   == NatDigits(n \div v[2])
             used == IF n \div v[2] = 0 THEN 0 ELSE Len(ip)
             fr   == FracDigits(n % v[2], v[2], 17 - used)
         IN (IF v[1] < 0 THEN <<"-">> ELSE <<>>) \o ip
            \o (IF fr = <<>> THEN <<>> ELSE <<".">> \o fr)

\* size_t is modelled with SizeBits bits; a - b wraps around
SizeBits == 20

SIZE_MAX == 2 ^ SizeBits - 1

SizeSub(a, b) == IF a >= b THEN a - b ELSE SIZE_MAX + 1 - (b - a)

\* The buffer memory is a function from the written offsets (relative to
\* the caller's buffer) to characters.
Poke(b, off, c) == [x \in DOMAIN b \cup {off} |-> IF x = off THEN c ELSE b[x]]

RECURSIVE PokeAll(_, _, _, _)
PokeAll(b, off, chars, k) ==
    IF k = 0 THEN b
    ELSE Poke(PokeAll(b, off, chars, k - 1), off + k - 1, chars[k])

\* snprintf(buffer + base, size, "%s", chars): at most size - 1 characters
\* and a NUL; the return value is Len(chars)
snprintf(b, base, size, chars) ==
    IF size = 0 THEN b
    ELSE LET k == IF Len(chars) < size - 1 THEN Len(chars) ELSE size - 1
         IN Poke(PokeAll(b, base, chars, k), base + k, NUL)

\* fossil_math_sym_to_string(expr, buffer + base, bufsize) returns
\* [b, ret, wrapped]: the buffer memory after the call, the returned length
\* and whether a recursive call was given a wrapped-around size.
RECURSIVE fossil_math_sym_to_string(_, _, _, _, _)

\* fossil_math_sym_to_string writing the operator without the two spaces
fossil_math_sym_to_string_unspaced(h, expr, b, base, bufsize) ==
    IF expr = NULL \/ bufsize = 0 THEN [b |-> b, ret |-> 0, wrapped |-> FALSE]
    ELSE
    LET body ==
          IF h[expr].type = fossil_math_sym_CONST THEN
              [b |-> snprintf(b, base, bufsize, Format17g(h[expr].value)),
               ret |-> Len(Format17g(h[expr].value)), wrapped |-> FALSE]
          ELSE IF h[expr].type = fossil_math_sym_VAR THEN
              [b |-> snprintf(b, base, bufsize, h[expr].name),
               ret |-> Len(h[expr].name), wrapped |-> FALSE]
          ELSE
              LET l  == IF h[expr].left # NULL
                        THEN fossil_math_sym_to_string(h, h[expr].left, b, base, bufsize)
                        ELSE [b |-> b, ret |-> 0, wrapped |-> FALSE]
                  p1 == l.ret
                  b2 == IF p1 < bufsize - 1
                        THEN Poke(l.b, base + p1, h[expr].op)
                        ELSE l.b
                  p2 == IF p1 < bufsize - 1 THEN p1 + 1 ELSE p1
                  r  == IF h[expr].right # NULL
                        THEN fossil_math_sym_to_string(h, h[expr].right, b2,
                                                       base + p2, SizeSub(bufsize, p2))
                        ELSE [b |-> b2, ret |-> 0, wrapped |-> FALSE]
              IN [b |-> r.b, ret |-> p2 + r.ret,
                  wrapped |-> l.wrapped \/ r.wrapped
                              \/ (h[expr].right # NULL /\ p2 > bufsize)]
        pos == IF body.ret >= bufsize THEN bufsize - 1 ELSE body.ret
    IN [b |-> Poke(body.b, base + pos, NUL), ret |-> pos, wrapped |-> body.wrapped]

fossil_math_sym_to_string(h, expr, b, base, bufsize) ==
    IF expr = NULL \/ bufsize = 0 THEN [b |-> b, ret |-> 0, wrapped |-> FALSE]
    ELSE
    LET body ==
          IF h[expr].type = fossil_math_sym_CONST THEN
              [b |-> snprintf(b, base, bufsize, Format17g(h[expr].value)),
               ret |-> Len(Format17g(h[expr].value)), wrapped |-> FALSE]
          ELSE IF h[expr].type = fossil_math_sym_VAR THEN
              [b |-> snprintf(b, base, bufsize, h[expr].name),
               ret |-> Len(h[expr].name), wrapped |-> FALSE]
          ELSE
              LET l  == IF h[expr].left # NULL
                        THEN fossil_math_sym_to_string(h, h[expr].left, b, base, bufsize)
                        ELSE [b |-> b, ret |-> 0, wrapped |-> FALSE]
                  p1 == l.ret
                  b2 == IF p1 < bufsize - 1
                        THEN Poke(Poke(Poke(l.b, base + p1, " "),
                                       base + p1 + 1, h[expr].op),
                                  base + p1 + 2, " ")
                        ELSE l.b
                  p2 == IF p1 < bufsize - 1 THEN p1 + 3 ELSE p1
                  r  == IF h[expr].right # NULL
                        THEN fossil_math_sym_to_string(h, h[expr].right, b2,
                                                       base + p2, SizeSub(bufsize, p2))
                        ELSE [b |-> b2, ret |-> 0, wrapped |-> FALSE]
              IN [b |-> r.b, ret |-> p2 + r.ret,
                  wrapped |-> l.wrapped \/ r.wrapped
                              \/ (h[expr].right # NULL /\ p2 > bufsize)]
        pos == IF body.ret >= bufsize THEN bufsize - 1 ELSE body.ret
    IN [b |-> Poke(body.b, base + pos, NUL), ret |-> pos, wrapped |-> body.wrapped]

\* the C string at the start of the buffer: the characters before the
\* first NUL
RECURSIVE CString(_, _)
CString(b, off) ==
    IF off \notin DOMAIN b \/ b[off] = NUL THEN <<>>
    ELSE <<b[off]>> \o CString(b, off + 1)

\* ------------------------------------------------------------------------
\* Substitution
\* fossil_math_sym_substitute(expr, var, value) returns [m, ret]: the memory
\* after the call and the returned pointer.
\* ------------------------------------------------------------------------

RECURSIVE fossil_math_sym_substitute(_, _, _, _)

\* the operator case after the call on the left child returned l
SubRight(expr, var, value, l) ==
    LET r == fossil_math_sym_substitute(l.m, l.m.h[expr].right, var, value)
    IN NewOp(r.m, r.m.h[expr].op, l.ret, r.ret)

\* fossil_math_sym_substitute replacing every variable, whatever its name
fossil_math_sym_substitute_every(m, expr, var, value) ==
    IF expr = NULL THEN Ret(m, NULL)
    ELSE IF m.h[expr].type = fossil_math_sym_CONST THEN
        NewConst(m, m.h[expr].value)
    ELSE IF m.h[expr].type = fossil_math_sym_VAR THEN NewConst(m, value)
    ELSE SubRight(expr, var, value,
                  fossil_math_sym_substitute(m, m.h[expr].left, var, value))

\* fossil_math_sym_substitute returning a constant of the input as it is
fossil_math_sym_substitute_shared(m, expr, var, value) ==
    IF expr = NULL THEN Ret(m, NULL)
    ELSE IF m.h[expr].type = fossil_math_sym_CONST THEN Ret(m, expr)
    ELSE IF m.h[expr].type = fossil_math_sym_VAR THEN
        (IF m.h[expr].name = var THEN NewConst(m, value)
         ELSE Ret([m EXCEPT !.h = fossil_math_sym_new_var(m.h, m.h[expr].name)],
                  Len(m.h) + 1))
    ELSE SubRight(expr, var, value,
                  fossil_math_sym_substitute(m, m.h[expr].left, var, value))

fossil_math_sym_substitute(m, expr, var, value) ==
    IF expr = NULL THEN Ret(m, NULL)
    ELSE IF m.h[expr].type = fossil_math_sym_CONST THEN
        NewConst(m, m.h[expr].value)
    ELSE IF m.h[expr].type = fossil_math_sym_VAR THEN
        (IF m.h[expr].name = var THEN NewConst(m, value)
         ELSE Ret([m EXCEPT !.h = fossil_math_sym_new_var(m.h, m.h[expr].name)],
                  Len(m.h) + 1))
    ELSE SubRight(expr, var, value,
                  fossil_math_sym_substitute(m, m.h[expr].left, var, value))

\* ------------------------------------------------------------------------
\* Inputs of the session
\* ------------------------------------------------------------------------

\* the characters of the enumerated texts
Alphabet == {"p", "i", "2", "+", "*", "(", ")", " ", "_", "^"}

EnumTexts == UNION {[1..n -> Alphabet] : n \in 0..MaxLen}

\* an identifier longer than the name of a node
LongIdent == [k \in 1..(NameSize + 1) |-> "a"]

\* texts of the tests and of the documentation
ExampleTexts ==
    { <<"x", " ", "^", " ", "2">>,
      <<"2", " ", "x">>,
      <<"2", " ", "+">>,
      <<"x", " ", "+", " ", "@">>,
      <<"x", "^", "2", " ", "+", " ", "3", "*", "x">>,
      <<"p", "i", " ", "+", " ", "e">>,
      <<"x", " ", "*", " ", "y", " ", "+", " ", "1">>,
      <<"a", " ", "-", " ", "b", " ", "-", " ", "c">>,
      <<"a", " ", "/", " ", "b", " ", "*", " ", "c">>,
      <<"(", "a", " ", "+", " ", "b", ")", " ", "*", " ", "c">>,
      <<"2", " ", "+", " ", "2">>,
      <<"2", " ", "+", " ", "3">>,
      <<"1", " ", "/", " ", "0">>,
      <<"x", " ", "/", " ", "y">>,
      <<"2", "e", "2">>,
      <<".", "5">>,
      <<".">>,
      <<"1", " ", "/", " ", "z">>,
      <<"x", " ", "+", " ", "3">>,
      <<"x", " ", "*", " ", "y">>,
      <<"a", " ", "+", " ", "b", " ", "*", " ", "c">>,
      LongIdent \o <<" ", "+", " ", "1">> }

RawTexts == EnumTexts \cup ExampleTexts

Leaves == {Const(Num(2)), Var(<<"p">>)}

GrammarOps == {"+", "-", "*", "/"}

\* the trees with exactly n operator nodes over the operators ops; the
\* right operand of '^' is a leaf constant
RECURSIVE TreesOf(_, _)
TreesOf(ops, n) ==
    IF n = 0 THEN Leaves
    ELSE UNION {{Op(o, l, r) : o \in ops \ {"^"},
                               l \in TreesOf(ops, k),
                               r \in TreesOf(ops, n - 1 - k)} : k \in 0..(n - 1)}
         \cup (IF "^" \in ops
               THEN {Op("^", l, Const(Num(2))) : l \in TreesOf(ops, n - 1)}
               ELSE {})

GrammarTrees == UNION {TreesOf(GrammarOps, n) : n \in 0..MaxOps}

\* hand-built powers whose exponent is zero or whose base is one
PowerTrees ==
    { Op("^", Var(<<"p">>), Const(Num(0))),
      Op("^", Const(Num(1)), Var(<<"p">>)),
      Op("+", Op("^", Var(<<"p">>), Const(Num(0))), Const(Num(2))) }

\* hand-built trees: those the parser cannot produce
BuiltTrees ==
    (UNION {TreesOf(GrammarOps \cup {"^"}, n) : n \in 1..MaxOps} \ GrammarTrees)
    \cup PowerTrees

IsOp(t) == t[1] = "BinaryOp"

Prec(o) == IF o \in {"+", "-"} THEN 1 ELSE IF o \in {"*", "/"} THEN 2 ELSE 3

\* a call f(a, b) of the calculator as a tree
Call(f, a, b) == <<"Call", f, a, b>>

Styles == [sp : BOOLEAN, full : BOOLEAN]

\* The text of a tree under the grammar: a left operand is parenthesised
\* when its operator binds weaker than the parent's (or both are '^'), a
\* right operand when it does not bind tighter; the style adds spaces and
\* redundant parentheses.  A call is written f(a, b).
RECURSIVE Unparse(_, _)
Unparse(t, st) ==
    IF t[1] = "Constant" THEN NatDigits(t[2][1])
    ELSE IF t[1] = "Variable" THEN t[2]
    ELSE IF t[1] = "Call" THEN
        t[2] \o <<"(">> \o Unparse(t[3], st) \o <<",">>
             \o (IF st.sp THEN <<" ">> ELSE <<>>) \o Unparse(t[4], st) \o <<")">>
    ELSE LET o   == t[2]
             wl  == IsOp(t[3]) /\ (\/ st.full
                                   \/ Prec(t[3][2]) < Prec(o)
                                   \/ (o = "^" /\ t[3][2] = "^"))
             wr  == IsOp(t[4]) /\ (st.full \/ Prec(t[4][2]) <= Prec(o))
             l   == Unparse(t[3], st)
             r   == Unparse(t[4], st)
             sep == IF st.sp THEN <<" ">> ELSE <<>>
         IN (IF wl THEN <<"(">> \o l \o <<")">> ELSE l)
            \o sep \o <<o>> \o sep
            \o (IF wr THEN <<"(">> \o r \o <<")">> ELSE r)

\* a client building the nodes of tree t by hand, children first
RECURSIVE BuildTree(_, _)
BuildTree(h, t) ==
    IF t[1] = "Constant" THEN
        LET h1 == Append(h, [ZeroNode EXCEPT !.value = t[2]])
        IN [h |-> h1, ret |-> Len(h1)]
    ELSE IF t[1] = "Variable" THEN
        LET h1 == Append(h, [ZeroNode EXCEPT !.type = fossil_math_sym_VAR,
                                             !.name = t[2]])
        IN [h |-> h1, ret |-> Len(h1)]
    ELSE LET l  == BuildTree(h, t[3])
             r  == BuildTree(l.h, t[4])
             h1 == Append(r.h, [ZeroNode EXCEPT !.type = fossil_math_sym_OP,
                                                !.op = t[2],
                                                !.left = l.ret,
                                                !.right = r.ret])
         IN [h |-> h1, ret |-> Len(h1)]

DiffVars == {<<"x">>, <<"p">>}

\* test_var_lookup of the tests, extended to the variable of the
\* enumerated texts
test_var_lookup ==
    [present |-> TRUE,
     map |-> [n \in {<<"x">>, <<"y">>, <<"p">>} |->
                 IF n = <<"y">> THEN Num(3) ELSE Num(2)]]

\* the point x = 2, y = 5
lookup_x2_y5 ==
    [present |-> TRUE,
     map |-> [n \in {<<"x">>, <<"y">>} |->
                 IF n = <<"y">> THEN Num(5) ELSE Num(2)]]

Lookups == {NoLookup, test_var_lookup, lookup_x2_y5}

\* the trees of the substitution session have at most SubOps operators
SubOps == 1

SubLeaves == {Const(Num(2)), Var(<<"x">>), Var(<<"y">>)}

\* the trees with exactly n operator nodes over + - * / ^ and SubLeaves; the
\* right operand of '^' is the constant 2
RECURSIVE SubTreesOf(_)
SubTreesOf(n) ==
    IF n = 0 THEN SubLeaves
    ELSE UNION {{Op(o, l, r) : o \in GrammarOps,
                               l \in SubTreesOf(k),
                               r \in SubTreesOf(n - 1 - k)} : k \in 0..(n - 1)}
         \cup {Op("^", l, Const(Num(2))) : l \in SubTreesOf(n - 1)}

SubTrees == UNION {SubTreesOf(n) : n \in 0..SubOps}

\* the names and the values substituted
SubVars == {<<"x">>, <<"y">>}

SubValues == {Num(10), Num(20)}

\* char buf[64] of the tests
TestBufSize == 64

\* the caller's buffers: that of the tests and short ones
BufSizes == {1, 2, 3, 4, 6, TestBufSize}

\* ------------------------------------------------------------------------
\* The calculator: environment, tokenizer and stack machine
\* ------------------------------------------------------------------------

\* fossil_math_calc_env_init(env): vars and funcs are sequences, NULL is <<>>
fossil_math_calc_env_init == [vars |-> <<>>, funcs |-> <<>>]

\* fossil_math_calc_set_var(env, name, value): the environment after the call
fossil_math_calc_set_var(env, name, value) ==
    IF \E i \in DOMAIN env.vars : env.vars[i].name = name
    THEN [env EXCEPT !.vars =
             [i \in DOMAIN env.vars |->
                 IF i = Min({j \in DOMAIN env.vars : env.vars[j].name = name})
                 THEN [env.vars[i] EXCEPT !.value = value] ELSE env.vars[i]]]
    ELSE [env EXCEPT !.vars =
             Append(@, [name |-> Take(name, NameSize - 1), value |-> value])]

\* fossil_math_calc_register_func(env, name, func, argc)
fossil_math_calc_register_func(env, name, func, argc) ==
    [env EXCEPT !.funcs = Append(@, [name |-> Take(name, NameSize - 1),
                                     func |-> func, argc |-> argc])]

test_add_func(args) == IF Len(args) = 2 THEN DAdd(args[1], args[2]) ELSE Num(0)

test_mul_func(args) == IF Len(args) = 2 THEN DMul(args[1], args[2]) ELSE Num(0)

\* func_entry->func(args, argc)
CallFunc(func, args) ==
    IF func = "test_add_func" THEN test_add_func(args) ELSE test_mul_func(args)

\* the strcmp chains of the tokenizer, of fossil_math_lookup_var and of the
\* 'v' branch of fossil_math_eval_rpn: the same twelve names in each
CalcConstTable ==
    << [name |-> <<"P", "I">>,                          val |-> FOSSIL_MATH.PI],
       [name |-> <<"E">>,                               val |-> FOSSIL_MATH.E],
       [name |-> <<"T", "W", "O", "_", "P", "I">>,      val |-> FOSSIL_MATH.TWO_PI],
       [name |-> <<"H", "A", "L", "F", "_", "P", "I">>, val |-> FOSSIL_MATH.HALF_PI],
       [name |-> <<"L", "O", "G", "2", "E">>,           val |-> FOSSIL_MATH.LOG2E],
       [name |-> <<"L", "O", "G", "1", "0", "E">>,      val |-> FOSSIL_MATH.LOG10E],
       [name |-> <<"L", "N", "2">>,                     val |-> FOSSIL_MATH.LN2],
       [name |-> <<"L", "N", "1", "0">>,                val |-> FOSSIL_MATH.LN10],
       [name |-> <<"S", "Q", "R", "T", "2">>,           val |-> FOSSIL_MATH.SQRT2],
       [name |-> <<"S", "Q", "R", "T", "1", "_", "2">>, val |-> FOSSIL_MATH.SQRT1_2],
       [name |-> <<"D", "E", "G", "2", "R", "A", "D">>, val |-> FOSSIL_MATH.DEG2RAD],
       [name |-> <<"R", "A", "D", "2", "D", "E", "G">>, val |-> FOSSIL_MATH.RAD2DEG] >>

\* the rows of a table (constants, variables, functions) with this name
Rows(table, name) == {i \in DOMAIN table : table[i].name = name}

fossil_math_lookup_var(env, name) ==
    IF Rows(CalcConstTable, name) # {}
    THEN CalcConstTable[Min(Rows(CalcConstTable, name))].val
    ELSE IF Rows(env.vars, name) = {} THEN NAN
    ELSE env.vars[Min(Rows(env.vars, name))].value

\* the entry's index in env.funcs, NULL when there is none
fossil_math_lookup_func(env, name) ==
    IF Rows(env.funcs, name) = {} THEN NULL ELSE Min(Rows(env.funcs, name))

fossil_math_is_operator(c) == c \in {"+", "-", "*", "/", "^"}

\* every operator on one level
fossil_math_precedence_flat(op) == IF fossil_math_is_operator(op) THEN 1 ELSE 0

fossil_math_precedence(op) ==
    CASE op \in {"+", "-"} -> 1
      [] op \in {"*", "/"} -> 2
      [] op = "^" -> 3
      [] OTHER -> 0

fossil_math_apply_operator(op, a, b) ==
    CASE op = "+" -> DAdd(a, b)
      [] op = "-" -> DSub(a, b)
      [] op = "*" -> DMul(a, b)
      [] op = "/" -> IF b # Num(0) THEN DDiv(a, b) ELSE NAN
      [] op = "^" -> pow(a, b)
      [] OTHER -> NAN

\* fossil_math_token_t tokens[128]
MaxTokens == 128

\* One pass of the tokenizer's while loop, position i and the tokens
\* written in s; rc is the return code and done says that the loop has been
\* left.  A token is its type, value and name; a field the tokenizer leaves
\* unset is never read by the stack machine and is zero here.
TokenizeFrom(text, s) ==
    LET c == At(text, s.i) IN
    IF c = NUL \/ Len(s.tokens) >= MaxTokens THEN [s EXCEPT !.done = TRUE]
    ELSE IF isspace(c) THEN [s EXCEPT !.i = @ + 1]
    ELSE IF isdigit(c) \/ c = "." THEN
        LET r == strtod(text, s.i)
        IN [s EXCEPT !.i = IF r.end = NULL THEN @ ELSE r.end,
                     !.tokens = Append(@, [type |-> "n", value |-> r.val,
                                           name |-> <<>>])]
    ELSE IF isalpha(c) THEN
        LET e    == ScanIdent(text, s.i, 0)
            name == SubSeq(text, s.i, e - 1)
            rows == Rows(CalcConstTable, name)
        IN [s EXCEPT !.i = e,
                     !.tokens = Append(@,
               [type  |-> IF At(text, SkipSpace(text, e)) = "(" THEN "f" ELSE "v",
                value |-> IF rows = {} THEN Num(0)
                          ELSE CalcConstTable[Min(rows)].val,
                name  |-> name])]
    ELSE IF c = "," \/ fossil_math_is_operator(c) \/ c \in {"(", ")"}
    THEN [s EXCEPT !.i = @ + 1,
                   !.tokens = Append(@, [type |-> c, value |-> Num(0),
                                         name |-> <<c>>])]
    ELSE [s EXCEPT !.rc = -1, !.done = TRUE]

\* The while loop, at most n passes of it: the first half of the passes,
\* then the rest from the state m they end in.
RECURSIVE TokenizeLoop(_, _, _)
TokenizeLoop(text, s, n) ==
    IF s.done \/ n = 0 THEN s
    ELSE IF n = 1 THEN TokenizeFrom(text, s)
    ELSE CHOOSE r \in { TokenizeLoop(text, m, n - (n \div 2)) :
                          m \in {TokenizeLoop(text, s, n \div 2)} } : TRUE

\* Every pass but MaxTokens of them moves on in the text.
fossil_math_tokenize(text) ==
    TokenizeLoop(text, [i |-> 1, tokens |-> <<>>, rc |-> 0, done |-> FALSE],
                 Len(text) + MaxTokens + 1)

\* double stack[128]; char ops[128]
StackSize == 128

\* fossil_math_token_t func_stack[32]; size_t arg_count_stack[32]
FuncStackSize == 32

\* double args[8]
MaxArgs == 8

\* The stack machine's locals are st: stack[0..sp-1], ops[0..op_sp-1], the
\* names in func_stack[], arg_count_stack[], ret, the value of an early
\* return (None while the machine runs), and oob, the arrays that have been
\* written past their end.  Such a write is undefined behaviour; the
\* machine goes on here as if the array were longer, which is the outcome
\* in which nothing is noticed.

\* The machine's four inner loops: while an operator is on top of ops[]
\* (of precedence >= minPrec for an operator token; not '(' when toParen,
\* for ',' and ')'; any for the final loop), return NAN if sp < 2, else pop
\* b, a and the operator and push the operator applied to a, b.
RECURSIVE ApplyWhile(_, _, _)
ApplyWhile(st, minPrec, toParen) ==
    IF st.ops = <<>> THEN st
    ELSE LET top == st.ops[Len(st.ops)]
             sp  == Len(st.stack)
         IN IF fossil_math_precedence(top) < minPrec \/ (toParen /\ top = "(")
            THEN st
            ELSE IF sp < 2 THEN [st EXCEPT !.ret = NAN]
            ELSE ApplyWhile(
                     [st EXCEPT !.stack = Append(SubSeq(st.stack, 1, sp - 2),
                                    fossil_math_apply_operator(top, st.stack[sp - 1],
                                                               st.stack[sp])),
                                !.ops = SubSeq(st.ops, 1, Len(st.ops) - 1)],
                     minPrec, toParen)

\* the ')' branch after its loop: the '(' is popped and, if a function is
\* on func_stack[], the function is applied to the top argc values
CloseToken(st, env) ==
    IF st.ret # None THEN st
    ELSE IF st.ops = <<>> THEN [st EXCEPT !.ret = NAN]
    ELSE IF st.funcs = <<>> \/ st.args = <<>>
    THEN [st EXCEPT !.ops = SubSeq(st.ops, 1, Len(st.ops) - 1)]
    ELSE LET argc  == st.args[Len(st.args)] + 1
             entry == fossil_math_lookup_func(env, st.funcs[Len(st.funcs)])
             sp    == Len(st.stack)
         IN IF entry = NULL THEN [st EXCEPT !.ret = NAN]
            ELSE IF env.funcs[entry].argc # argc \/ sp < argc
            THEN [st EXCEPT !.ret = NAN]
            ELSE [st EXCEPT
                     !.oob   = IF argc > MaxArgs THEN @ \cup {"args"} ELSE @,
                     !.ops   = SubSeq(st.ops, 1, Len(st.ops) - 1),
                     !.stack = Append(SubSeq(st.stack, 1, sp - argc),
                                   CallFunc(env.funcs[entry].func,
                                            SubSeq(st.stack, sp - argc + 1, sp))),
                     !.funcs = SubSeq(st.funcs, 1, Len(st.funcs) - 1),
                     !.args  = SubSeq(st.args, 1, Len(st.args) - 1)]

\* one iteration of the for loop, on token t
RpnToken(st, t, env) ==
    IF t.type = "n" THEN [st EXCEPT !.stack = Append(@, t.value)]
    ELSE IF t.type = "v" THEN
        (IF Rows(CalcConstTable, t.name) # {}
         THEN [st EXCEPT !.stack = Append(@, fossil_math_lookup_var(env, t.name))]
         ELSE IF t.value # Num(0) THEN [st EXCEPT !.stack = Append(@, t.value)]
         ELSE IF isnan(fossil_math_lookup_var(env, t.name))
         THEN [st EXCEPT !.ret = NAN]
         ELSE [st EXCEPT !.stack = Append(@, fossil_math_lookup_var(env, t.name))])
    ELSE IF t.type = "f" THEN
        [st EXCEPT !.funcs = Append(@, t.name), !.args = Append(@, 0),
                   !.ops = Append(@, "(")]
    ELSE IF fossil_math_is_operator(t.type) THEN
        LET s1 == ApplyWhile(st, fossil_math_precedence(t.type), FALSE)
        IN IF s1.ret # None THEN s1 ELSE [s1 EXCEPT !.ops = Append(@, t.type)]
    ELSE IF t.type = "(" THEN [st EXCEPT !.ops = Append(@, "(")]
    ELSE IF t.type = "," THEN
        LET s1 == ApplyWhile(st, 0, TRUE)
        IN IF s1.ret # None \/ s1.args = <<>> THEN s1
           ELSE [s1 EXCEPT !.args[Len(s1.args)] = @ + 1]
    ELSE IF t.type = ")" THEN CloseToken(ApplyWhile(st, 0, TRUE), env)
    ELSE st

\* the arrays whose index has passed the end after a token's pushes
PastEnd(st) ==
    [st EXCEPT !.oob =
        @ \cup {a \in {"stack"} : Len(st.stack) > StackSize}
          \cup {a \in {"ops"} : Len(st.ops) > StackSize}
          \cup {a \in {"func_stack"} : Len(st.funcs) > FuncStackSize}
          \cup {a \in {"arg_count_stack"} : Len(st.args) > FuncStackSize}]

\* the for loop over tokens[lo..hi]: the first half of the tokens, then the
\* rest from the state m they end in
RECURSIVE RpnLoop(_, _, _, _, _)
RpnLoop(st, tokens, lo, hi, env) ==
    IF st.ret # None \/ lo > hi THEN st
    ELSE IF lo = hi THEN PastEnd(RpnToken(st, tokens[lo], env))
    ELSE CHOOSE r \in { RpnLoop(m, tokens, (lo + hi) \div 2 + 1, hi, env) :
                          m \in {RpnLoop(st, tokens, lo, (lo + hi) \div 2, env)} } :
             TRUE

\* the for loop, the final loop and the return: the value returned and the
\* arrays written past their end
fossil_math_eval_rpn(tokens, env) ==
    LET st  == RpnLoop([stack |-> <<>>, ops |-> <<>>, funcs |-> <<>>,
                        args |-> <<>>, ret |-> None, oob |-> {}],
                       tokens, 1, Len(tokens), env)
        fin == IF st.ret # None THEN st ELSE ApplyWhile(st, 0, FALSE)
    IN [val |-> IF fin.ret # None THEN fin.ret
                ELSE IF Len(fin.stack) = 1 THEN fin.stack[1] ELSE NAN,
        oob |-> fin.oob]

fossil_math_calc_eval(text, env) ==
    LET r == fossil_math_tokenize(text)
    IN IF r.rc # 0 THEN [val |-> NAN, oob |-> {}]
       ELSE fossil_math_eval_rpn(r.tokens, env)

\* ------------------------------------------------------------------------
\* The tensor module (tensor.c)
\* ------------------------------------------------------------------------

\* A tensor is [dims, shape, data]: shape[1..dims] the extents, data the
\* block of doubles that calloc returned, data[k + 1] being data[k] of the
\* code.  Sizes and offsets are size_t: SizeBits bits, wrapping around.

\* the null pointer to a tensor
NoTensor == [dims |-> 0, shape |-> <<>>, data |-> <<>>]

\* total *= shape[i] for i < dims
RECURSIVE fossil_math_tensor_size(_, _)
fossil_math_tensor_size(shape, dims) ==
    IF dims = 0 THEN 1
    ELSE (fossil_math_tensor_size(shape, dims - 1) * shape[dims]) % (SIZE_MAX + 1)

\* the loop of fossil_math_tensor_index before its pass for dimension i
\* (counted from 1), down to the return of offset
RECURSIVE IndexFrom(_, _, _, _, _)
IndexFrom(t, idx, i, offset, stride) ==
    IF i = 0 THEN offset
    ELSE IndexFrom(t, idx, i - 1,
                   (offset + idx[i] * stride) % (SIZE_MAX + 1),
                   (stride * t.shape[i]) % (SIZE_MAX + 1))

fossil_math_tensor_index(t, idx) == IndexFrom(t, idx, t.dims, 0, 1)

\* the element counts alone decide
fossil_math_tensor_shape_equal_size(a, b) ==
    fossil_math_tensor_size(a.shape, a.dims) = fossil_math_tensor_size(b.shape, b.dims)

fossil_math_tensor_shape_equal(a, b) ==
    /\ a.dims = b.dims
    /\ \A i \in 1..a.dims : a.shape[i] = b.shape[i]

\* fossil_math_tensor_create(shape, dims): calloc(total, sizeof(double))
\* gives no block when total * 8 does not fit size_t, and a block of no
\* elements when total is 0 (as glibc does); an allocation never fails for
\* lack of memory.
fossil_math_tensor_create(shape, dims) ==
    IF dims = 0 THEN NoTensor
    ELSE IF fossil_math_tensor_size(shape, dims) * 8 > SIZE_MAX THEN NoTensor
    ELSE [dims  |-> dims,
          shape |-> SubSeq(shape, 1, dims),
          data  |-> [k \in 1..fossil_math_tensor_size(shape, dims) |-> Num(0)]]

\* data[pos] lies outside the block of t
Outside(t, idx) ==
    t # NoTensor /\ fossil_math_tensor_index(t, idx) >= Len(t.data)

\* fossil_math_tensor_get(t, idx); None stands for what a read outside the
\* block gives
fossil_math_tensor_get(t, idx) ==
    IF t = NoTensor THEN Num(0)
    ELSE IF Outside(t, idx) THEN None
    ELSE t.data[fossil_math_tensor_index(t, idx) + 1]

\* fossil_math_tensor_set(t, idx, value): the tensor after the call; a write
\* outside the block leaves the block as it is
fossil_math_tensor_set(t, idx, value) ==
    IF t = NoTensor \/ Outside(t, idx) THEN t
    ELSE [t EXCEPT !.data[fossil_math_tensor_index(t, idx) + 1] = value]

fossil_math_tensor_add(a, b) ==
    IF a = NoTensor \/ b = NoTensor THEN NoTensor
    ELSE IF ~fossil_math_tensor_shape_equal(a, b) THEN NoTensor
    ELSE IF fossil_math_tensor_create(a.shape, a.dims) = NoTensor THEN NoTensor
    ELSE [fossil_math_tensor_create(a.shape, a.dims) EXCEPT
             !.data = [k \in 1..fossil_math_tensor_size(a.shape, a.dims) |->
                          DAdd(a.data[k], b.data[k])]]

fossil_math_tensor_mul(a, b) ==
    IF a = NoTensor \/ b = NoTensor THEN NoTensor
    ELSE IF ~fossil_math_tensor_shape_equal(a, b) THEN NoTensor
    ELSE IF fossil_math_tensor_create(a.shape, a.dims) = NoTensor THEN NoTensor
    ELSE [fossil_math_tensor_create(a.shape, a.dims) EXCEPT
             !.data = [k \in 1..fossil_math_tensor_size(a.shape, a.dims) |->
                          DMul(a.data[k], b.data[k])]]

\* sum after the first k passes of: sum += a->data[i * n + k] *
\* b->data[k * p + j] (with i = 0, n the length, p = 1, j = 0 for vectors)
RECURSIVE DotSum(_, _, _, _, _, _, _)
DotSum(a, b, i, j, n, p, k) ==
    IF k = 0 THEN Num(0)
    ELSE DAdd(DotSum(a, b, i, j, n, p, k - 1),
              DMul(a.data[i * n + k], b.data[(k - 1) * p + j + 1]))

\* fossil_math_tensor_dot(a, b): ret is the tensor returned, oob says that
\* a loop read or wrote outside a block (the blocks are then left as they
\* are)
fossil_math_tensor_dot(a, b) ==
    IF a = NoTensor \/ b = NoTensor THEN [ret |-> NoTensor, oob |-> FALSE]
    ELSE IF a.dims = 1 /\ b.dims = 1 /\ a.shape[1] = b.shape[1] THEN
        [ret |-> [fossil_math_tensor_create(<<1>>, 1) EXCEPT
                     !.data[1] = DotSum(a, b, 0, 0, a.shape[1], 1, a.shape[1])],
         oob |-> FALSE]
    ELSE IF a.dims = 2 /\ b.dims = 2 /\ a.shape[2] = b.shape[1] THEN
        LET m == a.shape[1]
            n == a.shape[2]
            p == b.shape[2]
            r == fossil_math_tensor_create(<<m, p>>, 2)
        IN IF r = NoTensor THEN [ret |-> NoTensor, oob |-> FALSE]
           ELSE IF m * p > 0 /\ (\/ m * p > Len(r.data)
                                 \/ n > 0 /\ m * n > Len(a.data)
                                 \/ n > 0 /\ n * p > Len(b.data))
           THEN [ret |-> r, oob |-> TRUE]
           ELSE [ret |-> [r EXCEPT !.data =
                            [q \in 1..(m * p) |->
                                DotSum(a, b, (q - 1) \div p, (q - 1) % p, n, p, n)]],
                 oob |-> FALSE]
    ELSE [ret |-> NoTensor, oob |-> FALSE]

\* ------------------------------------------------------------------------
\* Inputs of the tensor client
\* ------------------------------------------------------------------------

\* an extent whose square does not fit size_t
WideExtent == 2 ^ ((SizeBits + 1) \div 2)

\* the shapes of the tests ({2}, {3}, {2, 2}, {2, 3}), others of dims 1 to
\* 3, and one whose element count wraps around to 0
Shapes ==
    { <<0>>, <<2>>, <<3>>, <<2, 2>>, <<2, 3>>, <<3, 2>>, <<1, 2, 2>>,
      <<WideExtent, WideExtent>> }

\* the index vectors inside the shape of t, components below 3
Indices(t) ==
    {idx \in [1..t.dims -> 0..2] : \A i \in 1..t.dims : idx[i] < t.shape[i]}

\* fossil_math_tensor_set(t, idx, first + idx[1] + 3 * idx[2] + 9 * idx[3])
\* for every idx of idxs, one after the other from the tensor m left by the
\* call before
RECURSIVE SetAll(_, _, _)
SetAll(t, idxs, first) ==
    IF idxs = {} THEN t
    ELSE LET idx == CHOOSE x \in idxs : TRUE
         IN CHOOSE r \in
               { SetAll(m, idxs \ {idx}, first) :
                   m \in {fossil_math_tensor_set(t, idx,
                            Num(first + idx[1]
                                + (IF t.dims > 1 THEN 3 * idx[2] ELSE 0)
                                + (IF t.dims > 2 THEN 9 * idx[3] ELSE 0)))} } :
               TRUE

\* ------------------------------------------------------------------------
\* fossil_math_wrap: the doubles of its loops
\* ------------------------------------------------------------------------

\* a < b; false when an operand is not a number
DLess(a, b) == a[1] * b[2] < b[1] * a[2]

\* The largest double of the model: a sum beyond it is an infinity.
DBL_MAX == 1000

\* the double that holds the exact result a
Round(a) ==
    IF a[2] # 0 /\ DLess(Num(DBL_MAX), a) THEN <<1, 0>>
    ELSE IF a[2] # 0 /\ DLess(a, Num(-DBL_MAX)) THEN <<-1, 0>>
    ELSE a

\* the values wrapped: those of the tests (370, -10, 180, 0) and others
WrapValues ==
    {Num(-370), Num(-10), Num(0), Num(180), Num(360), Num(370), Num(730),
     <<1, 0>>}

\* the bounds <<min, max>>: those of the tests (0 to 360, 0 to 0), another
\* pair with min < max, two with max < min
WrapBounds ==
    { <<Num(0), Num(360)>>, <<Num(0), Num(0)>>, <<Num(-180), Num(180)>>,
      <<Num(360), Num(0)>>, <<Num(180), Num(-180)>> }

\* ------------------------------------------------------------------------
\* Inputs of the client that sets variables
\* ------------------------------------------------------------------------

\* most calls of fossil_math_calc_set_var in a run
MaxCalls == 3

\* the names set: two short ones and one longer than char name[32]
VarNames == {<<"x">>, <<"y">>, LongIdent}

\* ------------------------------------------------------------------------
\* Inputs of the calculator session
\* ------------------------------------------------------------------------

\* the variables set and the values given to them
CalcSettings ==
    { [name |-> <<"p">>, value |-> Num(3)],
      [name |-> <<"x">>, value |-> Num(5)] }

\* the functions registered: name, function, arity
CalcFuncs ==
    { [name |-> <<"a", "d", "d">>, func |-> "test_add_func", argc |-> 2],
      [name |-> <<"m", "u", "l">>, func |-> "test_mul_func", argc |-> 2] }

\* the operands of every '^' of the tree are leaves, so that pow() stays
\* within the model's integers
RECURSIVE PowOfLeaves(_)
PowOfLeaves(t) ==
    ~IsOp(t) \/ ( /\ t[2] = "^" => (~IsOp(t[3]) /\ ~IsOp(t[4]))
                  /\ PowOfLeaves(t[3])
                  /\ PowOfLeaves(t[4]) )

\* the function-free expressions evaluated: the trees of at most MaxOps
\* operators, the expressions of the operator test, and parentheses around
\* a base and an exponent
ExprTrees ==
    {t \in UNION {TreesOf(GrammarOps \cup {"^"}, n) : n \in 0..MaxOps} :
        PowOfLeaves(t)}
    \cup { Op("+", Const(Num(2)), Op("*", Const(Num(3)), Const(Num(4)))),
           Op("*", Op("+", Const(Num(2)), Const(Num(3))), Const(Num(4))),
           Op("^", Const(Num(2)), Const(Num(3))),
           Op("^", Op("+", Const(Num(2)), Const(Num(3))), Const(Num(2))),
           Op("^", Const(Num(2)), Op("+", Const(Num(1)), Const(Num(2)))),
           Op("-", Var(<<"x">>), Op("/", Const(Num(6)), Var(<<"p">>))) }

\* the calls evaluated: an argument is a number, a variable or a call; with
\* the calls of the function tests
CallTrees ==
    LET Over(A) == {Call(f.name, a, b) : f \in CalcFuncs, a \in A, b \in A}
        args    == {Const(Num(3)), Var(<<"x">>)}
    IN Over(args \cup Over(args))
       \cup { Call(<<"m", "u", "l">>, Const(Num(6)), Const(Num(7))),
              Call(<<"a", "d", "d">>,
                   Call(<<"m", "u", "l">>, Const(Num(2)), Const(Num(3))),
                   Const(Num(4))) }

\* texts given as they are: constants, redundant parentheses, malformed
CalcTexts ==
    { <<"P", "I", " ", "+", " ", "E">>,
      <<"(", "(", "2", " ", "+", " ", "3", ")", ")", " ", "*", " ", "4">>,
      <<"2", " ", "+">>,
      <<"a", "d", "d", "(", "1", ")">>,
      <<"2", " ", "$", " ", "3">>,
      <<"1", ".", "5", "e", "1", "*", "2">>,
      <<"2", " ", "+", " ", "*", " ", "3">>,
      <<"(", "2", " ", "+", " ", "3">>,
      <<"2", " ", "+", " ", "3", ")">>,
      <<"1", " ", "^", " ", "2", " ", "(", "3">>,
      <<"q", " ", "+", " ", "1">>,
      <<"f", "o", "o", "(", "1", ",", " ", "2", ")">>,
      <<"a", "d", "d", "(", "1", ",", " ", "2", ",", " ", "3", ")">>,
      [k \in 1..(2 * (FuncStackSize + 1)) |-> IF k % 2 = 1 THEN "a" ELSE "("],
      <<"a", "d", "d", "9", "(">>
          \o [k \in 1..(2 * MaxArgs) |-> IF k % 2 = 1 THEN "1" ELSE ","]
          \o <<"1", ")">> }

\* ------------------------------------------------------------------------
\* The session: a client obtains a tree (parse or hand-built), transforms
\* it at most once (simplify or diff), observes a tree (eval, to_string)
\* and releases what it holds.
\* ------------------------------------------------------------------------

VARIABLES
    mem,        \* the memory
    pc,         \* "init", "have" (expr obtained), "done" (res obtained)
    src,        \* "none", "text", "grammar", "built"
    text,       \* the text given to the parser
    want,       \* the tree the text was written from, or the tree built
    pend,       \* the position at which the top-level expr ended (NULL: failed)
    expr,       \* the client's tree
    tree0,      \* the tree of expr when it was obtained
    op,         \* "none", "simplify", "diff"
    dvar,       \* the variable of differentiation
    res,        \* the tree returned by simplify or diff
    released,   \* the handles given to fossil_math_sym_free, in call order
    out,        \* the text rendered by to_string, None, or Aborted
    obuf,       \* the call of to_string: [size, b, ret, wrapped], b the
                \* buffer memory after the call, ret the length returned
    lk,         \* the lookup given to eval
    val         \* the value returned by eval, or None

symvars == <<mem, pc, src, text, want, pend, expr, tree0, op, dvar, res,
             released, out, obuf, lk, val>>

\* The substitution session (cpp_math_test_sym_substitute_all_vars): a client
\* obtains a tree, substitutes into it (sub1), substitutes into the result
\* (sub2), evaluates the latest tree and releases what it holds.
VARIABLES
    smem,       \* the memory
    spc,        \* "init", "have", "sub1", "sub2": the latest tree obtained
    sexpr,      \* the client's tree
    stree0,     \* the tree of sexpr when it was obtained
    sub1,       \* the first substitution: [var, value, ret, tree]
    sub2,       \* the second substitution, made into sub1
    sreleased,  \* the handles given to fossil_math_sym_free, in call order
    slk,        \* the lookup given to eval
    sval        \* the value returned by eval, or None

subvars == <<smem, spc, sexpr, stree0, sub1, sub2, sreleased, slk, sval>>

\* The calculator session (test_calc.c): a client sets variables and
\* registers functions in an environment and evaluates a text in it.  The
\* evaluation takes the environment as const, so the session ends with it.
VARIABLES
    cenv,       \* the environment
    cpc,        \* "init", "wide" (a function of nine arguments registered),
                \* "text" (a text evaluated), "tree" (the text of a tree),
                \* "aborted" (the evaluation was stopped at a write past an array)
    ctext,      \* the text evaluated last
    cwant,      \* the tree the text was written from, or Absent
    cres,       \* the value returned by fossil_math_calc_eval, or None
    coob        \* the arrays the evaluation wrote past their end

calcvars == <<cenv, cpc, ctext, cwant, cres, coob>>

\* A client that sets variables of an environment
VARIABLES
    venv,       \* the environment
    vcalls      \* the calls of fossil_math_calc_set_var made: [name, value]

\* A client of the tensor module
VARIABLES
    tpc,        \* "init", "have" (a and b created), "done" (an operation
                \* made), "aborted" (stopped at an access outside a block)
    ta,         \* the tensor a
    tb,         \* the tensor b
    tr,         \* the tensor returned by add, mul or dot
    tlast,      \* the operation made and, for set and get, what was read
    toob        \* an access outside a block of doubles has happened

\* A caller of fossil_math_wrap
VARIABLES
    wpc,        \* "idle", "up" (at the first while), "down" (at the second
                \* while), "returned"
    wargs,      \* the arguments [x, min, max] of the call
    wx,         \* the local x
    wres        \* the value returned, or None

wrapvars == <<wpc, wargs, wx, wres>>

libvars == <<venv, vcalls, tpc, ta, tb, tr, tlast, toob, wrapvars>>

vars == <<symvars, subvars, calcvars, libvars>>

\* what the actions of the first session leave alone
notSym == <<subvars, calcvars, libvars>>

\* what the actions of the substitution session leave alone
notSub == <<symvars, calcvars, libvars>>


exprFreed == \E k \in DOMAIN released : released[k] = "expr"

resFreed == \E k \in DOMAIN released : released[k] = "res"

\* no substitution made
NoSub == [var |-> <<>>, value |-> NAN, ret |-> NULL, tree |-> Absent]

SubInit ==
    /\ smem = Mem(<<>>, {}, {}, FALSE)
    /\ spc = "init"
    /\ sexpr = NULL
    /\ stree0 = Absent
    /\ sub1 = NoSub
    /\ sub2 = NoSub
    /\ sreleased = <<>>
    /\ slk = NoLookup
    /\ sval = None

CalcInit ==
    /\ cenv = fossil_math_calc_env_init
    /\ cpc = "init"
    /\ ctext = <<>>
    /\ cwant = Absent
    /\ cres = None
    /\ coob = {}

\* no operation made yet
NoOp == [op |-> "none", i |-> <<>>, j |-> <<>>, v |-> None,
         before |-> None, gi |-> None, gj |-> None]

LibInit ==
    /\ venv = fossil_math_calc_env_init
    /\ vcalls = <<>>
    /\ tpc = "init"
    /\ ta = NoTensor
    /\ tb = NoTensor
    /\ tr = NoTensor
    /\ tlast = NoOp
    /\ toob = FALSE
    /\ wpc = "idle"
    /\ wargs = [x |-> Num(0), min |-> Num(0), max |-> Num(0)]
    /\ wx = Num(0)
    /\ wres = None

Init ==
    /\ SubInit
    /\ CalcInit
    /\ LibInit
    /\ mem = Mem(<<>>, {}, {}, FALSE)
    /\ pc = "init"
    /\ src = "none"
    /\ text = <<>>
    /\ want = Absent
    /\ pend = NULL
    /\ expr = NULL
    /\ tree0 = Absent
    /\ op = "none"
    /\ dvar = <<>>
    /\ res = NULL
    /\ released = <<>>
    /\ out = None
    /\ obuf = [size |-> 0, b |-> <<>>, ret |-> 0, wrapped |-> FALSE]
    /\ lk = NoLookup
    /\ val = None

\* expr = fossil_math_sym_parse(t), r being what the call returned
AfterParse(t, from, w, r) ==
       /\ pc = "init"
       /\ mem' = [mem EXCEPT !.h = r.h]
       /\ pc' = "have"
       /\ src' = from
       /\ text' = t
       /\ want' = w
       /\ pend' = r.end
       /\ expr' = r.root
       /\ tree0' = TreeOf(r.h, r.root)
       /\ UNCHANGED <<op, dvar, res, released, out, obuf, lk, val>>
       /\ UNCHANGED notSym

ParseText ==
    /\ pc = "init"
    /\ \E t \in RawTexts :
           AfterParse(t, "text", Absent, fossil_math_sym_parse(mem.h, t))

ParseGrammar ==
    /\ pc = "init"
    /\ \E t \in GrammarTrees, st \in Styles :
           AfterParse(Unparse(t, st), "grammar", t,
                      fossil_math_sym_parse(mem.h, Unparse(t, st)))

Build ==
    /\ pc = "init"
    /\ \E t \in BuiltTrees :
        LET r == BuildTree(mem.h, t)
        IN /\ pc = "init"
           /\ mem' = [mem EXCEPT !.h = r.h]
           /\ pc' = "have"
           /\ src' = "built"
           /\ want' = t
           /\ expr' = r.ret
           /\ tree0' = TreeOf(r.h, r.ret)
           /\ UNCHANGED <<text, pend, op, dvar, res, released, out, obuf, lk, val>>
           /\ UNCHANGED notSym

Untouched == ~exprFreed /\ ~resFreed /\ ~mem.crashed /\ out = None /\ val = None

\* simp = fossil_math_sym_simplify(expr)
Simplify ==
    \E detect \in BOOLEAN :
        /\ pc = "have"
        /\ Untouched
        /\ mem' = fossil_math_sym_simplify(mem, expr, detect)
        /\ res' = expr
        /\ op' = "simplify"
        /\ pc' = "done"
        /\ UNCHANGED <<src, text, want, pend, expr, tree0, dvar, released,
                       out, obuf, lk, val>>
        /\ UNCHANGED notSym

\* diff = fossil_math_sym_diff(expr, var)
Diff ==
    \E var \in DiffVars, detect \in BOOLEAN :
        LET r == fossil_math_sym_diff(mem, expr, var, detect)
        IN /\ pc = "have"
           /\ Untouched
           /\ mem' = r.m
           /\ res' = r.ret
           /\ op' = "diff"
           /\ dvar' = var
           /\ pc' = "done"
           /\ UNCHANGED <<src, text, want, pend, expr, tree0, released,
                          out, obuf, lk, val>>
           /\ UNCHANGED notSym

\* the tree the client observes: the result once there is one
Current == IF pc = "done" THEN res ELSE expr

\* no operator node below p lacks a child
RECURSIVE Complete(_, _)
Complete(h, p) ==
    \/ h[p].type # fossil_math_sym_OP
    \/ /\ h[p].left # NULL /\ Complete(h, h[p].left)
       /\ h[p].right # NULL /\ Complete(h, h[p].right)

\* val = fossil_math_sym_eval(Current, lookup)
Eval ==
    \E L \in Lookups :
        /\ pc \in {"have", "done"}
        /\ Untouched
        /\ Current # NULL => Complete(mem.h, Current)
        /\ val' = fossil_math_sym_eval(mem.h, Current, L)
        /\ lk' = L
        /\ UNCHANGED <<mem, pc, src, text, want, pend, expr, tree0, op, dvar,
                       res, released, out, obuf>>
        /\ UNCHANGED notSym

\* fossil_math_sym_to_string(Current, buf, sizeof(buf)); a write past the
\* end of buf either stops the process or goes unnoticed
DoToString ==
    \E size \in BufSizes :
        /\ pc \in {"have", "done"}
        /\ Untouched
        /\ \E r \in {fossil_math_sym_to_string(mem.h, Current, <<>>, 1, size)} :
              /\ obuf' = [size |-> size, b |-> r.b, ret |-> r.ret,
                          wrapped |-> r.wrapped]
              /\ \E abort \in {FALSE, \E off \in DOMAIN r.b : off > size} :
                    out' = IF abort THEN Aborted ELSE CString(r.b, 1)
        /\ UNCHANGED <<mem, pc, src, text, want, pend, expr, tree0, op, dvar,
                       res, released, lk, val>>
        /\ UNCHANGED notSym

\* fossil_math_sym_free(expr)
FreeExpr ==
    \E detect \in BOOLEAN :
        /\ pc \in {"have", "done"}
        /\ ~exprFreed /\ ~mem.crashed
        /\ out = None /\ val = None
        /\ mem' = fossil_math_sym_free(mem, expr, detect)
        /\ released' = Append(released, "expr")
        /\ UNCHANGED <<pc, src, text, want, pend, expr, tree0, op, dvar, res,
                       out, obuf, lk, val>>
        /\ UNCHANGED notSym

\* fossil_math_sym_free(expr) once more, on the tree already released
FreeExprAgain ==
    \E detect \in BOOLEAN :
        /\ pc = "have"
        /\ released = <<"expr">> /\ ~mem.crashed
        /\ mem' = fossil_math_sym_free(mem, expr, detect)
        /\ released' = Append(released, "expr")
        /\ UNCHANGED <<pc, src, text, want, pend, expr, tree0, op, dvar, res,
                       out, obuf, lk, val>>
        /\ UNCHANGED notSym

\* fossil_math_sym_free(res)
FreeRes ==
    \E detect \in BOOLEAN :
        /\ pc = "done"
        /\ ~resFreed /\ ~mem.crashed
        /\ out = None /\ val = None
        /\ mem' = fossil_math_sym_free(mem, res, detect)
        /\ released' = Append(released, "res")
        /\ UNCHANGED <<pc, src, text, want, pend, expr, tree0, op, dvar, res,
                       out, obuf, lk, val>>
        /\ UNCHANGED notSym

Next ==
    \/ ParseText
    \/ ParseGrammar
    \/ Build
    \/ Simplify
    \/ Diff
    \/ Eval
    \/ DoToString
    \/ FreeExpr
    \/ FreeExprAgain
    \/ FreeRes

Spec == Init /\ [][Next]_vars

\* ------------------------------------------------------------------------
\* The substitution session
\* ------------------------------------------------------------------------

\* auto expr = parse(...): the tree as built in memory
SubBuild ==
    /\ spc = "init"
    /\ \E t \in SubTrees :
        LET r == BuildTree(smem.h, t)
        IN /\ smem' = [smem EXCEPT !.h = r.h]
           /\ spc' = "have"
           /\ sexpr' = r.ret
           /\ stree0' = TreeOf(r.h, r.ret)
           /\ UNCHANGED <<sub1, sub2, sreleased, slk, sval>>
           /\ UNCHANGED notSub

SubUntouched == sreleased = <<>> /\ ~smem.crashed /\ sval = None

\* sub1 = fossil_math_sym_substitute(expr, var, value)
Substitute1 ==
    /\ spc = "have"
    /\ SubUntouched
    /\ \E var \in SubVars, value \in SubValues :
        LET r == fossil_math_sym_substitute(smem, sexpr, var, value)
        IN /\ smem' = r.m
           /\ sub1' = [var |-> var, value |-> value, ret |-> r.ret,
                       tree |-> TreeOf(r.m.h, r.ret)]
           /\ spc' = "sub1"
           /\ UNCHANGED <<sexpr, stree0, sub2, sreleased, slk, sval>>
           /\ UNCHANGED notSub

\* sub2 = fossil_math_sym_substitute(sub1, var, value)
Substitute2 ==
    /\ spc = "sub1"
    /\ SubUntouched
    /\ \E var \in SubVars, value \in SubValues :
        LET r == fossil_math_sym_substitute(smem, sub1.ret, var, value)
        IN /\ smem' = r.m
           /\ sub2' = [var |-> var, value |-> value, ret |-> r.ret,
                       tree |-> TreeOf(r.m.h, r.ret)]
           /\ spc' = "sub2"
           /\ UNCHANGED <<sexpr, stree0, sub1, sreleased, slk, sval>>
           /\ UNCHANGED notSub

\* the pointer behind a handle of the client
SubPtr(hd) ==
    CASE hd = "expr" -> sexpr
      [] hd = "sub1" -> sub1.ret
      [] hd = "sub2" -> sub2.ret

\* the handles the client holds
SubHandles ==
    CASE spc = "init" -> {}
      [] spc = "have" -> {"expr"}
      [] spc = "sub1" -> {"expr", "sub1"}
      [] spc = "sub2" -> {"expr", "sub1", "sub2"}

\* the latest tree
SubCurrent ==
    CASE spc = "sub2" -> sub2.ret
      [] spc = "sub1" -> sub1.ret
      [] OTHER -> sexpr

\* val = fossil_math_sym_eval(latest tree, lookup)
SubEval ==
    /\ spc # "init"
    /\ SubUntouched
    /\ \E L \in Lookups :
        /\ sval' = fossil_math_sym_eval(smem.h, SubCurrent, L)
        /\ slk' = L
        /\ UNCHANGED <<smem, spc, sexpr, stree0, sub1, sub2, sreleased>>
        /\ UNCHANGED notSub

\* fossil_math_sym_free(handle)
SubFree ==
    /\ ~smem.crashed
    /\ sval = None
    /\ \E hd \in SubHandles, detect \in BOOLEAN :
        /\ \A k \in DOMAIN sreleased : sreleased[k] # hd
        /\ smem' = fossil_math_sym_free(smem, SubPtr(hd), detect)
        /\ sreleased' = Append(sreleased, hd)
        /\ UNCHANGED <<spc, sexpr, stree0, sub1, sub2, slk, sval>>
        /\ UNCHANGED notSub

SubNext ==
    \/ SubBuild
    \/ Substitute1
    \/ Substitute2
    \/ SubEval
    \/ SubFree

SubSpec == Init /\ [][SubNext]_vars

\* ------------------------------------------------------------------------
\* The calculator session
\* ------------------------------------------------------------------------

\* fossil_math_calc_set_var(&env, name, value)
CalcSetVar ==
    /\ cpc = "init"
    /\ \E v \in CalcSettings :
          cenv' = fossil_math_calc_set_var(cenv, v.name, v.value)
    /\ UNCHANGED <<cpc, ctext, cwant, cres, coob>>
    /\ UNCHANGED <<symvars, subvars, libvars>>

\* fossil_math_calc_register_func(&env, name, func, argc), each function
\* once
CalcRegister ==
    /\ cpc = "init"
    /\ \E f \in CalcFuncs :
          /\ fossil_math_lookup_func(cenv, f.name) = NULL
          /\ cenv' = fossil_math_calc_register_func(cenv, f.name, f.func, f.argc)
    /\ UNCHANGED <<cpc, ctext, cwant, cres, coob>>
    /\ UNCHANGED <<symvars, subvars, libvars>>

\* fossil_math_calc_register_func(&env, "add9", func, 9) on a fresh
\* environment: an arity above the machine's args[8]
CalcRegisterWide ==
    /\ cpc = "init"
    /\ cenv = fossil_math_calc_env_init
    /\ cenv' = fossil_math_calc_register_func(cenv, <<"a", "d", "d", "9">>,
                                              "test_add_func", MaxArgs + 1)
    /\ cpc' = "wide"
    /\ UNCHANGED <<ctext, cwant, cres, coob>>
    /\ UNCHANGED <<symvars, subvars, libvars>>

\* The end of result = fossil_math_calc_eval(text, &env) with outcome r: a
\* write past an array either stops the process (stack protector) or goes
\* unnoticed.
CalcReturn(r, to) ==
    /\ cres' = r.val
    /\ coob' = r.oob
    /\ \E abort \in {FALSE} \cup {r.oob # {}} :
          cpc' = IF abort THEN "aborted" ELSE to
    /\ UNCHANGED cenv
    /\ UNCHANGED <<symvars, subvars, libvars>>

\* result = fossil_math_calc_eval(text, &env)
CalcEvalText ==
    /\ cpc \in {"init", "wide"}
    /\ \E t \in CalcTexts :
          /\ ctext' = t
          /\ \E r \in {fossil_math_calc_eval(t, cenv)} : CalcReturn(r, "text")
    /\ cwant' = Absent

\* result = fossil_math_calc_eval(text, &env), the text written from a
\* tree: spaced with the parentheses needed, or unspaced with every
\* operation parenthesised
CalcEvalTree ==
    /\ cpc \in {"init", "wide"}
    /\ \E t \in ExprTrees \cup CallTrees, st \in {y \in Styles : y.sp # y.full} :
          /\ cwant' = t
          /\ ctext' = Unparse(t, st)
          /\ \E r \in {fossil_math_calc_eval(ctext', cenv)} : CalcReturn(r, "tree")

CalcNext ==
    \/ CalcSetVar
    \/ CalcRegister
    \/ CalcRegisterWide
    \/ CalcEvalText
    \/ CalcEvalTree

CalcSpec == Init /\ [][CalcNext]_vars

\* ------------------------------------------------------------------------
\* The client that sets variables
\* ------------------------------------------------------------------------

\* what the actions of the clients below leave alone
notLib == <<symvars, subvars, calcvars>>

\* fossil_math_calc_set_var(&env, name, value)
VarSet ==
    /\ Len(vcalls) < MaxCalls
    /\ \E name \in VarNames, value \in {Num(42), Num(24)} :
          /\ venv' = fossil_math_calc_set_var(venv, name, value)
          /\ vcalls' = Append(vcalls, [name |-> name, value |-> value])
    /\ UNCHANGED <<notLib, tpc, ta, tb, tr, tlast, toob, wrapvars>>

VarSpec == Init /\ [][VarSet]_vars

\* ------------------------------------------------------------------------
\* The tensor client
\* ------------------------------------------------------------------------

\* a = fossil_math_tensor_create(shapeA, dims); b likewise; with fill, the
\* loops of fossil_math_tensor_set that give a the values 1, 2, ... and b
\* the values 3, 4, ... (a tensor the loops would leave is not filled)
TensorCreate ==
    /\ tpc = "init"
    /\ \E sa \in Shapes, sb \in Shapes, fill \in BOOLEAN :
          \E a \in {fossil_math_tensor_create(sa, Len(sa))},
             b \in {fossil_math_tensor_create(sb, Len(sb))} :
             /\ fill => \A idx \in Indices(a) : ~Outside(a, idx)
             /\ fill => \A idx \in Indices(b) : ~Outside(b, idx)
             /\ ta' = IF fill THEN SetAll(a, Indices(a), 1) ELSE a
             /\ tb' = IF fill THEN SetAll(b, Indices(b), 3) ELSE b
    /\ tpc' = "have"
    /\ UNCHANGED <<notLib, venv, vcalls, tr, tlast, toob, wrapvars>>

\* r = fossil_math_tensor_add(a, b)
TensorAdd ==
    /\ tpc = "have"
    /\ tr' = fossil_math_tensor_add(ta, tb)
    /\ tlast' = [NoOp EXCEPT !.op = "add"]
    /\ tpc' = "done"
    /\ UNCHANGED <<notLib, venv, vcalls, ta, tb, toob, wrapvars>>

\* r = fossil_math_tensor_mul(a, b)
TensorMul ==
    /\ tpc = "have"
    /\ tr' = fossil_math_tensor_mul(ta, tb)
    /\ tlast' = [NoOp EXCEPT !.op = "mul"]
    /\ tpc' = "done"
    /\ UNCHANGED <<notLib, venv, vcalls, ta, tb, toob, wrapvars>>

\* r = fossil_math_tensor_dot(a, b); an access outside a block either
\* stops the process or goes unnoticed
TensorDot ==
    /\ tpc = "have"
    /\ \E r \in {fossil_math_tensor_dot(ta, tb)} :
          /\ tr' = r.ret
          /\ toob' = r.oob
          /\ \E abort \in {FALSE, r.oob} :
                tpc' = IF abort THEN "aborted" ELSE "done"
    /\ tlast' = [NoOp EXCEPT !.op = "dot"]
    /\ UNCHANGED <<notLib, venv, vcalls, ta, tb, wrapvars>>

\* before = fossil_math_tensor_get(a, j); fossil_math_tensor_set(a, i, v);
\* gi = fossil_math_tensor_get(a, i); gj = fossil_math_tensor_get(a, j).
\* A read outside the block gives zero or the value written outside.
TensorSetGet ==
    /\ tpc = "have"
    /\ \E i \in Indices(ta), j \in Indices(ta), v \in {Num(42)} :
          \E w \in {fossil_math_tensor_set(ta, i, v)} :
             /\ ta' = w
             /\ toob' = (Outside(ta, i) \/ Outside(ta, j))
             /\ \E before \in (IF Outside(ta, j) THEN {Num(0)}
                                ELSE {fossil_math_tensor_get(ta, j)}),
                   gi \in (IF Outside(w, i) THEN {Num(0), v}
                            ELSE {fossil_math_tensor_get(w, i)}),
                   gj \in (IF Outside(w, j) THEN {Num(0), v}
                            ELSE {fossil_math_tensor_get(w, j)}) :
                   tlast' = [op |-> "set", i |-> i, j |-> j, v |-> v,
                             before |-> before, gi |-> gi, gj |-> gj]
             /\ \E abort \in {FALSE, Outside(ta, i) \/ Outside(ta, j)} :
                   tpc' = IF abort THEN "aborted" ELSE "done"
    /\ UNCHANGED <<notLib, venv, vcalls, tb, tr, wrapvars>>

TensorNext ==
    \/ TensorCreate
    \/ TensorAdd
    \/ TensorMul
    \/ TensorDot
    \/ TensorSetGet

TensorSpec == Init /\ [][TensorNext]_vars

\* ------------------------------------------------------------------------
\* The caller of fossil_math_wrap
\* ------------------------------------------------------------------------

\* r = fossil_math_wrap(x, min, max), up to the first while:
\* double range = max - min; if (range == 0.0) return min;
WrapCall ==
    /\ wpc = "idle"
    /\ \E x \in WrapValues, b \in WrapBounds :
          /\ wargs' = [x |-> x, min |-> b[1], max |-> b[2]]
          /\ wx' = x
          /\ IF DSub(b[2], b[1]) = Num(0)
             THEN wpc' = "returned" /\ wres' = b[1]
             ELSE wpc' = "up" /\ wres' = wres
    /\ UNCHANGED <<notLib, venv, vcalls, tpc, ta, tb, tr, tlast, toob>>

\* while (x < min) x += range;
WrapUp ==
    /\ wpc = "up"
    /\ IF DLess(wx, wargs.min)
       THEN /\ wx' = Round(DAdd(wx, DSub(wargs.max, wargs.min)))
            /\ wpc' = wpc
       ELSE /\ wx' = wx
            /\ wpc' = "down"
    /\ UNCHANGED <<notLib, venv, vcalls, tpc, ta, tb, tr, tlast, toob, wargs, wres>>

\* while (x >= max) x -= range; return x;
WrapDown ==
    /\ wpc = "down"
    /\ IF DLess(wargs.max, wx) \/ wargs.max = wx
       THEN /\ wx' = Round(DSub(wx, DSub(wargs.max, wargs.min)))
            /\ wpc' = wpc
            /\ wres' = wres
       ELSE /\ wx' = wx
            /\ wpc' = "returned"
            /\ wres' = wx
    /\ UNCHANGED <<notLib, venv, vcalls, tpc, ta, tb, tr, tlast, toob, wargs>>

WrapNext ==
    \/ WrapCall
    \/ WrapUp
    \/ WrapDown

\* the call goes on as long as it can
WrapSpec == Init /\ [][WrapNext]_vars /\ WF_vars(WrapNext)

\* ------------------------------------------------------------------------
\* Properties
\* ------------------------------------------------------------------------

Parsed == src \in {"text", "grammar"}

\* sub occurs in seq
Contains(seq, sub) ==
    \E k \in 1..(Len(seq) - Len(sub) + 1) :
        SubSeq(seq, k, k + Len(sub) - 1) = sub

\* some operator node of tree t has an operator outside + - * /
RECURSIVE HasOtherOp(_)
HasOtherOp(t) ==
    /\ IsOp(t)
    /\ \/ t[2] \notin GrammarOps
       \/ HasOtherOp(t[3])
       \/ HasOtherOp(t[4])

\* tree t has a Variable node
RECURSIVE HasVar(_)
HasVar(t) ==
    \/ t[1] = "Variable"
    \/ IsOp(t) /\ (HasVar(t[3]) \/ HasVar(t[4]))

\* no operator node of tree t has two Constant children
RECURSIVE NoLiteralPair(_)
NoLiteralPair(t) ==
    IsOp(t) =>
        /\ ~(t[3][1] = "Constant" /\ t[4][1] = "Constant")
        /\ NoLiteralPair(t[3])
        /\ NoLiteralPair(t[4])

\* t1 is t0 with exactly its variable-free subtrees turned into a Constant
RECURSIVE FoldedFrom(_, _)
FoldedFrom(t0, t1) ==
    IF ~HasVar(t0) THEN t1[1] = "Constant"
    ELSE IF IsOp(t0) THEN
        /\ IsOp(t1)
        /\ t1[2] = t0[2]
        /\ FoldedFrom(t0[3], t1[3])
        /\ FoldedFrom(t0[4], t1[4])
    ELSE t1 = t0

\* C1: when the top-level expr ends before the end of the text (unconsumed
\* non-whitespace input follows it), fossil_math_sym_parse returns no tree.
C1_TrailingInputRejected ==
    (Parsed /\ pend # NULL /\ At(text, pend) # NUL) => expr = NULL

\* C2: when a required factor cannot be formed, fossil_math_sym_parse
\* returns no tree (never the partial tree built before the failure).
C2_MissingFactorRejected ==
    (Parsed /\ pend = NULL) => expr = NULL

\* C3: the result of fossil_math_sym_diff is a tree: every node reachable
\* from its root is reachable by exactly one path.
C3_DiffResultIsTree ==
    op = "diff" =>
        \A q \in Reach(mem.h, res) : Paths(mem.h, res, q) = 1

\* C4: the result of fossil_math_sym_diff shares no node with its input,
\* and releasing the input and the derivative, in either order, releases no
\* node twice.
C4_DiffResultIndependent ==
    op = "diff" =>
        /\ Reach(mem.h, res) \cap Reach(mem.h, expr) = {}
        /\ Len(released) = 2 => mem.twice = {}

\* C5: after simp = fossil_math_sym_simplify(expr), fossil_math_sym_free(expr)
\* followed by fossil_math_sym_free(simp) releases no node twice.
C5_SimplifyReleaseBoth ==
    (op = "simplify" /\ released = <<"expr", "res">>) => mem.twice = {}

\* C6: fossil_math_sym_diff returns no tree whenever some operator node of
\* its input has an operator other than + - * /, and never returns a tree
\* with an operator node that lacks a child.
C6_DiffRejectsOtherOps ==
    op = "diff" =>
        /\ HasOtherOp(tree0) => res = NULL
        /\ res # NULL => Complete(mem.h, res)

\* C7: parsing "x^2 + 3*x", differentiating with respect to x and rendering
\* the result yields a text that contains "2*x" and contains "3".
C7_PowerRuleRendering ==
    ( /\ text = <<"x", "^", "2", " ", "+", " ", "3", "*", "x">>
      /\ op = "diff" /\ dvar = <<"x">>
      /\ out # None /\ obuf.size = TestBufSize )
    => /\ Contains(out, <<"2", "*", "x">>)
       /\ Contains(out, <<"3">>)

\* C8: no Variable node of a parsed tree is named by one of the twelve
\* known constants.
C8_ConstantsNeverVariables ==
    (Parsed /\ pc = "have") =>
        \A q \in Reach(mem.h, expr) :
            mem.h[q].type = fossil_math_sym_VAR => mem.h[q].name \notin ConstNames

\* C9: the parser returns the tree the grammar dictates for a well-formed
\* text: * and / bind tighter than + and -, equal precedence associates to
\* the left, a parenthesised expr is one factor; "x * y + 1" with x = 2,
\* y = 3 evaluates to 7.
C9_GrammarTree ==
    /\ src = "grammar" => (pend = Len(text) + 1 /\ tree0 = want)
    /\ text = <<"a", " ", "-", " ", "b", " ", "-", " ", "c">> =>
           tree0 = Op("-", Op("-", Var(<<"a">>), Var(<<"b">>)), Var(<<"c">>))
    /\ text = <<"a", " ", "/", " ", "b", " ", "*", " ", "c">> =>
           tree0 = Op("*", Op("/", Var(<<"a">>), Var(<<"b">>)), Var(<<"c">>))
    /\ text = <<"(", "a", " ", "+", " ", "b", ")", " ", "*", " ", "c">> =>
           tree0 = Op("*", Op("+", Var(<<"a">>), Var(<<"b">>)), Var(<<"c">>))
    /\ ( /\ text = <<"x", " ", "*", " ", "y", " ", "+", " ", "1">>
         /\ pc = "have" /\ val # None /\ lk = test_var_lookup )
       => val = Num(7)

\* a text with a parenthesised right operand of equal precedence has been
\* parsed
C9_Witness ==
    /\ src = "grammar" /\ pc = "have"
    /\ want = Op("-", Var(<<"p">>), Op("-", Var(<<"p">>), Const(Num(2))))
    /\ text = <<"p", "-", "(", "p", "-", "2", ")">>
    /\ tree0 = want

\* C10: fossil_math_sym_simplify folds exactly the fully-literal subtrees:
\* the result has no operator node with two Constant children, every
\* subtree without a Variable has become one Constant, and every operator
\* node with a Variable below it keeps its operator and its children's order.
C10_FoldsLiteralSubtrees ==
    (op = "simplify" /\ expr # NULL) =>
        /\ NoLiteralPair(TreeOf(mem.h, res))
        /\ FoldedFrom(tree0, TreeOf(mem.h, res))

\* a tree with a variable on the left and a literal subtree on the right
\* has been simplified
C10_Witness ==
    /\ op = "simplify"
    /\ tree0 = Op("+", Var(<<"p">>), Op("*", Const(Num(2)), Const(Num(2))))
    /\ TreeOf(mem.h, res) = Op("+", Var(<<"p">>), Const(Num(4)))

\* C11: every '/' node whose right operand evaluates to exactly zero
\* evaluates to not-a-number, whether the zero is a literal, a looked-up
\* variable or a computed subexpression; so does the whole tree when that
\* node is its root.
C11_DivisionByZeroIsNan ==
    (val # None /\ Current # NULL) =>
        \A q \in Reach(mem.h, Current) :
            ( /\ mem.h[q].type = fossil_math_sym_OP
              /\ mem.h[q].op = "/"
              /\ fossil_math_sym_eval_internal(mem.h, mem.h[q].right, lk)
                     = Num(0) )
            => /\ isnan(fossil_math_sym_eval_internal(mem.h, q, lk))
               /\ q = Current => isnan(val)

\* "1 / z" has been evaluated with a lookup that gives 0 for z
C11_Witness ==
    /\ src = "text"
    /\ text = <<"1", " ", "/", " ", "z">>
    /\ lk = test_var_lookup
    /\ isnan(val)

\* C12: a tree that contains a Variable node evaluates to not-a-number when
\* the lookup is absent, whatever operators stand above the variable.
C12_UnresolvedVariableIsNan ==
    ( /\ val # None /\ lk = NoLookup
      /\ Current # NULL /\ HasVar(TreeOf(mem.h, Current)) )
    => isnan(val)

\* the lookup L with the substituted names bound to the substituted values;
\* a name substituted twice keeps its first value, a name left to the
\* absent lookup is unresolved
SubBound(L) ==
    [present |-> TRUE,
     map |-> [n \in SubVars |->
                 IF sub1 # NoSub /\ n = sub1.var THEN sub1.value
                 ELSE IF sub2 # NoSub /\ n = sub2.var THEN sub2.value
                 ELSE IF L = NoLookup THEN NAN
                 ELSE var_lookup(L, n)]]

\* C13: evaluating a substitution result with lookup L gives what the
\* original tree gives with L and the substituted names bound to their
\* values; once every variable is substituted, in either order, the absent
\* lookup gives that number: x = 10 and y = 20 into x + y give 30.
C13_SubstitutionAgreesWithBinding ==
    /\ sval # None =>
           sval = fossil_math_sym_eval(smem.h, sexpr, SubBound(slk))
    /\ ( /\ sval # None /\ slk = NoLookup /\ spc = "sub2"
         /\ stree0 = Op("+", Var(<<"x">>), Var(<<"y">>))
         /\ {<<sub1.var, sub1.value>>, <<sub2.var, sub2.value>>}
                = {<<(<<"x">>), Num(10)>>, <<(<<"y">>), Num(20)>>} )
       => sval = Num(30)

\* x = 10 then y = 20 have been substituted into x + y and the result
\* evaluated with no lookup
C13_Witness ==
    /\ stree0 = Op("+", Var(<<"x">>), Var(<<"y">>))
    /\ sub1.var = <<"x">> /\ sub1.value = Num(10)
    /\ sub2.var = <<"y">> /\ sub2.value = Num(20)
    /\ slk = NoLookup
    /\ sval = Num(30)

\* C14: substitution leaves its input as it was and returns a tree of new
\* nodes only; the input, sub1 and sub2 can each be released, no node is
\* released twice, and once all three are released every node has been
\* released.
C14_SubstituteIndependent ==
    /\ spc # "init" => TreeOf(smem.h, sexpr) = stree0
    /\ sub1 # NoSub => TreeOf(smem.h, sub1.ret) = sub1.tree
    /\ Reach(smem.h, sexpr) \cap Reach(smem.h, sub1.ret) = {}
    /\ Reach(smem.h, sexpr) \cap Reach(smem.h, sub2.ret) = {}
    /\ Reach(smem.h, sub1.ret) \cap Reach(smem.h, sub2.ret) = {}
    /\ smem.twice = {} /\ ~smem.crashed
    /\ Len(sreleased) = 3 => smem.freed = DOMAIN smem.h

\* the input x + 2 and both substitution results have been released
C14_Witness ==
    /\ stree0 = Op("+", Var(<<"x">>), Const(Num(2)))
    /\ sreleased = <<"expr", "sub1", "sub2">>
    /\ smem.freed = DOMAIN smem.h
    /\ smem.twice = {}

\* the derivative of tree t with respect to x by the rule table
RECURSIVE DiffRule(_, _)
DiffRule(t, x) ==
    IF t[1] = "Constant" THEN Const(Num(0))
    ELSE IF t[1] = "Variable" THEN
        Const(IF t[2] = x THEN Num(1) ELSE Num(0))
    ELSE LET u  == t[3]
             v  == t[4]
             du == DiffRule(u, x)
             dv == DiffRule(v, x)
         IN CASE t[2] = "+" -> Op("+", du, dv)
              [] t[2] = "-" -> Op("-", du, dv)
              [] t[2] = "*" -> Op("+", Op("*", du, v), Op("*", u, dv))
              [] t[2] = "/" -> Op("/", Op("-", Op("*", du, v), Op("*", u, dv)),
                                       Op("*", v, v))

\* C15: for a tree over + - * / the tree returned by fossil_math_sym_diff
\* has the shape the rule table gives; d/dx of "x + 3" evaluates to 1 and
\* d/dx of "x * y" at x = 2, y = 5 evaluates to 5.
C15_DiffRuleTable ==
    /\ (op = "diff" /\ expr # NULL /\ ~HasOtherOp(tree0)) =>
           TreeOf(mem.h, res) = DiffRule(tree0, dvar)
    /\ ( /\ op = "diff" /\ dvar = <<"x">> /\ val # None /\ lk # NoLookup
         /\ text = <<"x", " ", "+", " ", "3">> )
       => val = Num(1)
    /\ ( /\ op = "diff" /\ dvar = <<"x">> /\ val # None
         /\ lk = lookup_x2_y5
         /\ text = <<"x", " ", "*", " ", "y">> )
       => val = Num(5)

\* the derivative of "x * y" with respect to x has been evaluated at
\* x = 2, y = 5
C15_Witness ==
    /\ op = "diff" /\ dvar = <<"x">>
    /\ text = <<"x", " ", "*", " ", "y">>
    /\ TreeOf(mem.h, res) =
           Op("+", Op("*", Const(Num(1)), Var(<<"y">>)),
                   Op("*", Var(<<"x">>), Const(Num(0))))
    /\ lk = lookup_x2_y5
    /\ val = Num(5)

\* the infix text of tree t: left, space, operator, space, right
RECURSIVE Render(_)
Render(t) ==
    IF t[1] = "Constant" THEN Format17g(t[2])
    ELSE IF t[1] = "Variable" THEN t[2]
    ELSE Render(t[3]) \o <<" ", t[2], " ">> \o Render(t[4])

\* C16: when the buffer is large enough, the text rendered for a tree is
\* the rendering of the left child, a space, the operator, a space and the
\* rendering of the right child, without any parenthesis; (a+b)*c and
\* a+(b*c) both render as "a + b * c".
C16_RendersInfixNoParens ==
    /\ ( /\ out # None /\ Current # NULL /\ Complete(mem.h, Current)
         /\ Len(Render(TreeOf(mem.h, Current))) < obuf.size )
       => /\ out = Render(TreeOf(mem.h, Current))
          /\ \A k \in DOMAIN out : out[k] \notin {"(", ")"}
    /\ ( /\ out # None /\ pc = "have" /\ obuf.size = TestBufSize
         /\ text \in { <<"(", "a", " ", "+", " ", "b", ")", " ", "*", " ", "c">>,
                        <<"a", " ", "+", " ", "b", " ", "*", " ", "c">> } )
       => out = <<"a", " ", "+", " ", "b", " ", "*", " ", "c">>

\* the tree (a+b)*c has been rendered
C16_Witness ==
    /\ pc = "have"
    /\ tree0 = Op("*", Op("+", Var(<<"a">>), Var(<<"b">>)), Var(<<"c">>))
    /\ out = <<"a", " ", "+", " ", "b", " ", "*", " ", "c">>

\* C17: releasing an empty tree, or a tree a second time, raises no fault
\* and hands no node to free() a second time.
C17_FreeIdempotent ==
    (pc = "have" /\ op = "none") => (mem.twice = {} /\ ~mem.crashed)

\* C18: an identifier longer than 31 bytes becomes one Variable node named
\* by its first 31 bytes, and what follows the identifier in the text is
\* parsed into the tree.
C18_LongIdentifierTruncated ==
    (Parsed /\ text = LongIdent \o <<" ", "+", " ", "1">>) =>
        tree0 = Op("+", Var(Take(LongIdent, NameSize - 1)), Const(Num(1)))

\* the value of an expression of the calculator in an environment: a number
\* is its value, a variable the value set, an operation the operator applied
\* to the values of its operands, a call the function applied to the values
\* of its arguments
RECURSIVE CalcValue(_, _)
CalcValue(t, env) ==
    IF t[1] = "Constant" THEN t[2]
    ELSE IF t[1] = "Variable" THEN fossil_math_lookup_var(env, t[2])
    ELSE IF t[1] = "Call" THEN
        CallFunc(env.funcs[fossil_math_lookup_func(env, t[2])].func,
                 <<CalcValue(t[3], env), CalcValue(t[4], env)>>)
    ELSE fossil_math_apply_operator(t[2], CalcValue(t[3], env),
                                    CalcValue(t[4], env))

\* every variable of t is set in env and every function t calls is
\* registered in env with arity two
RECURSIVE CalcBound(_, _)
CalcBound(t, env) ==
    IF t[1] = "Constant" THEN TRUE
    ELSE IF t[1] = "Variable" THEN Rows(env.vars, t[2]) # {}
    ELSE /\ t[1] = "Call" =>
               /\ fossil_math_lookup_func(env, t[2]) # NULL
               /\ env.funcs[fossil_math_lookup_func(env, t[2])].argc = 2
         /\ CalcBound(t[3], env)
         /\ CalcBound(t[4], env)

\* C19: in an environment where the functions called are registered with
\* their arity and the variables used are set, fossil_math_calc_eval of the
\* text f(e1, e2), the arguments being numbers, variables or nested calls,
\* returns f applied to the values of the arguments (add(x, 3) with x = 5
\* gives 8, mul(6, 7) gives 42, add(mul(2, 3), 4) gives 10).
C19_CallAppliesFunction ==
    (cpc = "tree" /\ cwant \in CallTrees /\ CalcBound(cwant, cenv))
        => cres = CalcValue(cwant, cenv)

\* C20: fossil_math_calc_eval of the text of a function-free expression,
\* written with the parentheses that precedence ('^' over '*' '/' over
\* '+' '-') and left-to-right grouping require or with every operation
\* parenthesised, returns the value of the expression ("2 + 3 * 4" gives 14,
\* "(2 + 3) * 4" gives 20, "2 ^ 3" gives 8).
C20_PrecedenceAndParentheses ==
    (cpc = "tree" /\ cwant \in ExprTrees /\ CalcBound(cwant, cenv))
        => cres = CalcValue(cwant, cenv)

\* "(2 + 3) * 4" has been evaluated to 20
C20_Witness ==
    /\ cpc = "tree"
    /\ cwant = Op("*", Op("+", Const(Num(2)), Const(Num(3))), Const(Num(4)))
    /\ ctext = <<"(", "2", " ", "+", " ", "3", ")", " ", "*", " ", "4">>
    /\ cres = Num(20)

\* the number of '(' minus the number of ')' in t[1..k], or -1 once a
\* ')' has come without a '(' before it
RECURSIVE ParenDepth(_, _)
ParenDepth(t, k) ==
    IF k = 0 THEN 0
    ELSE LET d == ParenDepth(t, k - 1)
         IN IF d < 0 THEN -1
            ELSE IF t[k] = "(" THEN d + 1
            ELSE IF t[k] = ")" THEN d - 1
            ELSE d

\* C21: fossil_math_calc_eval returns not-a-number for a text with an
\* operator that lacks an operand, for a text with unbalanced parentheses,
\* and for an expression or call that uses an unset variable, an
\* unregistered function or a function registered with another arity.
C21_MalformedIsNan ==
    /\ (cpc = "text" /\ ParenDepth(ctext, Len(ctext)) # 0) => isnan(cres)
    /\ (cpc = "text" /\ ctext \in { <<"2", " ", "+">>,
                                   <<"2", " ", "+", " ", "*", " ", "3">>,
                                   <<"q", " ", "+", " ", "1">>,
                                   <<"f", "o", "o", "(", "1", ",", " ", "2", ")">>,
                                   <<"a", "d", "d", "(", "1", ")">>,
                                   <<"a", "d", "d", "(", "1", ",", " ", "2", ",",
                                     " ", "3", ")">> })
           => isnan(cres)
    /\ (cpc = "tree" /\ ~CalcBound(cwant, cenv)) => isnan(cres)

\* C30: in every evaluation the stack machine writes inside its arrays:
\* stack[] and ops[] below index 128, func_stack[] and arg_count_stack[]
\* below index 32, args[] below index 8.
C30_StaysInsideArrays == coob = {}

\* the value given by the last call that set name
LastSet(name) ==
    vcalls[CHOOSE k \in DOMAIN vcalls :
              /\ vcalls[k].name = name
              /\ \A j \in DOMAIN vcalls : vcalls[j].name = name => j <= k].value

\* C22: after any sequence of fossil_math_calc_set_var calls the stored
\* names are pairwise distinct, var_count is the number of distinct names
\* set, and each name set holds the value of the last call for it.
C22_SetVarOverwrites ==
    /\ \A i, j \in DOMAIN venv.vars :
          i # j => venv.vars[i].name # venv.vars[j].name
    /\ Len(venv.vars) = Cardinality({vcalls[k].name : k \in DOMAIN vcalls})
    /\ \A k \in DOMAIN vcalls :
          \E i \in DOMAIN venv.vars :
             /\ venv.vars[i].name = Take(vcalls[k].name, NameSize - 1)
             /\ venv.vars[i].value = LastSet(vcalls[k].name)

\* C23: fossil_math_tensor_add and fossil_math_tensor_mul return no tensor
\* for operands of different shapes; for equal shapes they return a tensor
\* of that shape whose element k is a[k] + b[k] (a[k] * b[k]) for every k.
\* (The operands are the same before and after: the actions leave ta and
\* tb as they are.)
C23_ElementwiseNeedsEqualShapes ==
    (tpc = "done" /\ tlast.op \in {"add", "mul"}) =>
        IF ta.shape # tb.shape THEN tr = NoTensor
        ELSE /\ tr # NoTensor
             /\ tr.dims = ta.dims
             /\ tr.shape = ta.shape
             /\ Len(tr.data) = Len(ta.data)
             /\ \A k \in DOMAIN ta.data :
                   tr.data[k] = IF tlast.op = "add"
                                THEN DAdd(ta.data[k], tb.data[k])
                                ELSE DMul(ta.data[k], tb.data[k])

\* {1, 2} + {3, 4} has given {4, 6}
C23_Witness ==
    /\ tpc = "done"
    /\ tlast.op = "add"
    /\ ta.data = <<Num(1), Num(2)>>
    /\ tb.data = <<Num(3), Num(4)>>
    /\ tr # NoTensor
    /\ tr.data = <<Num(4), Num(6)>>

\* f(0) + ... + f(n - 1)
RECURSIVE SumBelow(_, _)
SumBelow(f, n) == IF n = 0 THEN Num(0) ELSE DAdd(SumBelow(f, n - 1), f[n - 1])

\* C24: fossil_math_tensor_dot returns a one-element tensor holding the sum
\* of a[i] * b[i] for two 1-D tensors of equal length, the m-by-p matrix
\* product for a 2-D m-by-n and a 2-D n-by-p tensor (read and written
\* inside the blocks of the three tensors), and no tensor for any other
\* pair of shapes.
C24_DotByShape ==
    (tpc = "done" /\ tlast.op = "dot") =>
        IF ta.dims = 1 /\ tb.dims = 1 /\ ta.shape = tb.shape
        THEN /\ tr # NoTensor
             /\ tr.shape = <<1>>
             /\ tr.data = << SumBelow([i \in 0..(ta.shape[1] - 1) |->
                                 DMul(fossil_math_tensor_get(ta, <<i>>),
                                      fossil_math_tensor_get(tb, <<i>>))],
                                      ta.shape[1]) >>
        ELSE IF ta.dims = 2 /\ tb.dims = 2 /\ ta.shape[2] = tb.shape[1]
        THEN /\ ~toob
             /\ tr # NoTensor
             /\ tr.shape = <<ta.shape[1], tb.shape[2]>>
             /\ \A i \in 0..(ta.shape[1] - 1), j \in 0..(tb.shape[2] - 1) :
                   fossil_math_tensor_get(tr, <<i, j>>) =
                       SumBelow([k \in 0..(ta.shape[2] - 1) |->
                                   DMul(fossil_math_tensor_get(ta, <<i, k>>),
                                        fossil_math_tensor_get(tb, <<k, j>>))],
                                ta.shape[2])
        ELSE tr = NoTensor

\* C25: after fossil_math_tensor_set(t, i, v) with i inside the shape,
\* fossil_math_tensor_get(t, i) returns v and, for j # i inside the shape,
\* fossil_math_tensor_get(t, j) returns what it returned before; the
\* offsets of i and j are below the element count of the block.
C25_SetThenGet ==
    (tpc = "done" /\ tlast.op = "set") =>
        /\ ~toob
        /\ tlast.gi = tlast.v
        /\ tlast.i # tlast.j => tlast.gj = tlast.before

\* C26: every call of fossil_math_wrap returns; for min < max the value
\* returned is in [min, max) and differs from x by a multiple of max - min,
\* for min = max it is min.
C26_WrapReturnsInRange ==
    /\ [](wpc = "returned" =>
            /\ DLess(wargs.min, wargs.max) =>
                  /\ ~DLess(wres, wargs.min)
                  /\ DLess(wres, wargs.max)
                  /\ DDiv(DSub(wres, wargs.x), DSub(wargs.max, wargs.min))[2] = 1
            /\ wargs.min = wargs.max => wres = wargs.min)
    /\ (wpc # "idle" ~> wpc = "returned")

\* C27: a call of fossil_math_sym_to_string with bufsize >= 1 writes only
\* buffer[0 .. bufsize - 1], leaves a NUL at the length it returns, gives
\* no recursive call a remaining size that has wrapped around, and returns
\* at most bufsize - 1.
C27_ToStringStaysInBuffer ==
    (out \notin {None, Aborted} /\ Current # NULL) =>
        /\ \A off \in DOMAIN obuf.b : off <= obuf.size
        /\ ~obuf.wrapped
        /\ obuf.ret <= obuf.size - 1
        /\ obuf.ret + 1 \in DOMAIN obuf.b
        /\ obuf.b[obuf.ret + 1] = NUL
        /\ Len(out) <= obuf.ret

\* the number fossil_math_sym_eval gives for a newly built copy of tree t
ValueOfTree(t, L) ==
    LET r == BuildTree(<<>>, t)
    IN fossil_math_sym_eval(r.h, r.ret, L)

\* C28: evaluating the tree returned by fossil_math_sym_simplify gives, for
\* every lookup, the number (or not-a-number) that evaluating the original
\* tree gives, hand-built trees with operator '^' included.
C28_SimplifyPreservesValue ==
    (op = "simplify" /\ val # None /\ res # NULL) =>
        val = ValueOfTree(tree0, lk)

\* C29: when fossil_math_sym_diff returns no tree for an input with an
\* operator outside + - * /, no node of the input has been released or
\* modified by the call, and releasing the input afterwards releases no
\* node twice.
C29_FailedDiffLeavesInput ==
    (op = "diff" /\ res = NULL /\ HasOtherOp(tree0)) =>
        /\ released = <<>> =>
              /\ ~mem.crashed
              /\ Reach(mem.h, expr) \cap mem.freed = {}
              /\ TreeOf(mem.h, expr) = tree0
        /\ released = <<"expr">> => mem.twice = {}

====
